---- MODULE Spec2Model ----
(***************************************************************************)
(* A model of the demonstration chat agent: the request handler            *)
(* process_message of src/main.py (prompt building, the tool-call stream   *)
(* accumulator, the hand-over to dispatch) and the dispatcher              *)
(* process_function_calls / execute_function_call with the sixteen tool    *)
(* handlers of src/function_handler.py.                                    *)
(*                                                                         *)
(* Text is modelled as a sequence of tokens (strings); Python's string     *)
(* concatenation is \o.  Python's None is the token None for names, ids    *)
(* and URLs, and the empty option <<>> for an optional text (a present     *)
(* text t is <<t>>), so that None and "" stay different values.            *)
(***************************************************************************)
EXTENDS Integers, Sequences, FiniteSets, TLC

VARIABLES
    \* ---- src/main.py ----
    conversation_memory,  \* module-level dict: thread id -> sequence of turns
    pc,                   \* position of process_message: "idle", "streaming", "done"
    data,                 \* the ChatMessage being processed
    messages,             \* the prompt context handed to the model
    full_response,        \* local full_response
    usage_info,           \* local usage_info
    function_calls,       \* local function_calls: the accumulator's records
    lexia_log,            \* calls made on the lexia handler, in order
    nchunks,              \* stream chunks consumed by this request
    nrequests,            \* requests received so far
    \* history of the stream, kept to state the accumulator's contract
    seen,                 \* indices carried by the fragments delivered so far
    arrived,              \* index -> concatenation of the chunks delivered for it
    first_of,             \* index -> the id and name of the first fragment delivered for it
    conflicting,          \* indices with a later fragment whose id or name differs from the first's
    \* ---- src/function_handler.py ----
    dpc,                  \* position of process_function_calls: "idle", "loop", "returned"
    calls,                \* its parameter function_calls
    idx,                  \* loop variable idx (1-based)
    output,               \* local output
    file_url,             \* local file_url
    session,              \* calls made on the session, in order
    ret,                  \* the value returned by the last finished invocation
    ninvocations,         \* invocations of process_function_calls so far
    executed,             \* history: what execute_function_call did for each call
    file_url_from,        \* history: position of the call whose URL file_url holds (0: none)
    \* ---- src/function_handler.py: one call of _run_with_loading, step by step ----
    lpc,                  \* its position: "idle", "started", "awaiting", "sleeping", "exit"
    lkey,                 \* parameter key
    coro,                 \* parameter coro: what the awaited operation will do, and when
    now,                  \* the event loop's clock, in half seconds
    start_time,           \* local start_time
    wake_at,              \* the time asyncio.sleep(min_delay - elapsed) ends
    loading_log,          \* calls on session.loading and the operation's start, with their times
    lresult,              \* how the call ended: returned value, raised error or cancellation
    \* ---- src/main.py: runs of process_message in flight on one event loop ----
    tasks,                \* per run: its position and its locals data, messages, full_response, ...
    running               \* the run that holds the event loop, None when it is free

mainVars == <<conversation_memory, pc, data, messages, full_response, usage_info,
              function_calls, lexia_log, nchunks, nrequests, seen, arrived, first_of,
              conflicting>>
dispVars == <<dpc, calls, idx, output, file_url, session, ret, ninvocations,
              executed, file_url_from>>
loadVars == <<lpc, lkey, coro, now, start_time, wake_at, loading_log, lresult>>
taskVars == <<tasks, running>>
vars == <<conversation_memory, pc, data, messages, full_response, usage_info,
          function_calls, lexia_log, nchunks, nrequests, seen, arrived, first_of,
          conflicting,
          dpc, calls, idx, output, file_url, session, ret, ninvocations,
          executed, file_url_from,
          lpc, lkey, coro, now, start_time, wake_at, loading_log, lresult,
          tasks, running>>

(***************************************************************************)
(* Bounds of the model.                                                    *)
(***************************************************************************)
MaxRequests == 1      \* requests handled one after the other
MaxChunks == 3        \* stream chunks per request
MaxIndex == 1         \* largest tool-call index a fragment carries
MaxCalls == 2         \* longest batch handed to process_function_calls
MaxInvocations == 3   \* invocations of process_function_calls
MaxDuration == 4      \* longest time, in half seconds, an awaited operation takes
MaxMembers == 2       \* most members in the arguments object of a call made on its own
MaxTurns == 11        \* requests received when only the prompt context is followed
MaxArrivals == 2      \* requests received one after the other, with and without a key

(***************************************************************************)
(* Python values.                                                          *)
(***************************************************************************)
None == "None"

\* bool(x) of a name, id or URL: None and "" are falsy.
Truthy(x) == x # None /\ x # ""

\* bool(x) of an optional text: None and the empty text are falsy.
TruthyText(opt) == opt # <<>> /\ opt[1] # <<>>

\* x or y
PyOr(x, y) == IF Truthy(x) THEN x ELSE y

RECURSIVE Flatten(_)
\* "".join(texts)
Flatten(texts) == IF texts = <<>> THEN <<>> ELSE Head(texts) \o Flatten(Tail(texts))

IsPrefix(s, t) == Len(s) <= Len(t) /\ SubSeq(t, 1, Len(s)) = s

\* LastN with a slip: seq[:n], the oldest n elements.
FirstN(seq, n) == IF Len(seq) <= n THEN seq ELSE SubSeq(seq, 1, n)

\* seq[-n:]
LastN(seq, n) == IF Len(seq) <= n THEN seq ELSE SubSeq(seq, Len(seq) - n + 1, Len(seq))

(***************************************************************************)
(* src/main.py: process_message.                                           *)
(***************************************************************************)
Threads == {"t1", "t2"}
UserMessages == {<<"draw me a cat">>}

\* The ChatMessage objects a caller may send.
Requests == [thread_id : Threads, message : UserMessages, has_key : BOOLEAN]

NoRequest == [thread_id |-> None, message |-> <<>>, has_key |-> FALSE]

SystemPrompt == <<"You are a helpful AI assistant.">>
MissingKeyMsg == <<"Sorry, the OpenAI API key is missing.">>

\* conversation_memory[thread_id][-10:]
HistoryLimit == 10

Turn(role, content) == [role |-> role, content |-> content]

\* A call on the lexia handler.
LexiaEv(op, text, usage, url) == [op |-> op, text |-> text, usage |-> usage, file_url |-> url]
StreamChunkEv(text) == LexiaEv("stream_chunk", text, None, None)
SendErrorEv(err) == LexiaEv("send_error", <<"Error processing message:", err>>, None, None)

\* str(e) of the exceptions process_message can catch.
IndexErrorText == "list index out of range"
ArityErrorText == "process_function_calls() takes 2 positional arguments but 3 were given"
UpstreamErrorText == "upstream stream failure"

\* Tool-call fragments (chunk.choices[0].delta.tool_calls[k]).  function = FALSE is a
\* fragment whose .function is None.
ToolNamesInStream == {None, "generate_image", "send_trace"}
FragmentIds == {None, "call_a", "call_b"}
Headers == {<<None, None>>, <<"call_a", "generate_image">>, <<"call_b", "send_trace">>}
ArgChunks == {<<>>, << <<>> >>, << <<"{">> >>, << <<"}">> >>}

Fragment(i, fn, h, a) ==
    [index |-> i, function |-> fn, id |-> h[1], name |-> h[2], arguments |-> a]

Fragments ==
    {Fragment(i, TRUE, h, a) : i \in 0..MaxIndex, h \in Headers, a \in ArgChunks}
    \cup {Fragment(i, FALSE, <<"call_a", None>>, <<>>) : i \in 0..MaxIndex}

\* Stream chunks: an optional text delta, a list of tool-call fragments, optional usage.
StreamChunk(content, tcs, usage) == [content |-> content, tool_calls |-> tcs, usage |-> usage]

StreamChunks ==
    {StreamChunk(c, <<>>, None) : c \in {<<>>, << <<>> >>, << <<"hi">> >>}}
    \cup {StreamChunk(<<>>, <<f>>, None) : f \in Fragments}
    \cup {StreamChunk(<< <<"hi">> >>, <<f>>, "usage") :
              f \in {Fragment(0, TRUE, <<"call_a", "generate_image">>, << <<"{">> >>)}}
    \cup {StreamChunk(<<>>, <<>>, "usage")}
    \cup {StreamChunk(<<>>, <<Fragment(0, TRUE, <<"call_a", "generate_image">>, << <<"{">> >>),
                               Fragment(1, TRUE, <<"call_b", "send_trace">>, << <<"{">> >>)>>,
                       None)}

\* main.py 145-153: a new record, appended when the list is no longer than the index.
NewRecord(tc) == [id |-> tc.id, name |-> tc.name, arguments |-> <<>>]

\* AccumulateFragment with a slip: a later fragment that carries a name or an id
\* overwrites the one recorded when the record was allocated.
AccumulateFragmentRenaming(fcs, tc) ==
    IF ~tc.function
    THEN [fcs |-> fcs, announce |-> <<>>, raised |-> FALSE]
    ELSE LET isNew == Len(fcs) <= tc.index
             fcs1 == IF isNew THEN Append(fcs, NewRecord(tc))
                     ELSE IF tc.index + 1 <= Len(fcs) /\ Truthy(tc.name)
                          THEN [fcs EXCEPT ![tc.index + 1].name = tc.name,
                                           ![tc.index + 1].id = tc.id]
                          ELSE fcs
             ann == IF isNew
                    THEN <<StreamChunkEv(<<"Calling function:", tc.name>>)>>
                    ELSE <<>>
         IN IF ~TruthyText(tc.arguments)
            THEN [fcs |-> fcs1, announce |-> ann, raised |-> FALSE]
            ELSE IF tc.index + 1 > Len(fcs1)
                 THEN [fcs |-> fcs1, announce |-> ann, raised |-> TRUE]
                 ELSE [fcs |-> [fcs1 EXCEPT ![tc.index + 1].arguments =
                                                @ \o tc.arguments[1]],
                       announce |-> ann, raised |-> FALSE]

\* main.py 143-163: one fragment.  raised: function_calls[tool_call.index] is out of range.
AccumulateFragment(fcs, tc) ==
    IF ~tc.function
    THEN [fcs |-> fcs, announce |-> <<>>, raised |-> FALSE]
    ELSE LET isNew == Len(fcs) <= tc.index
             fcs1 == IF isNew THEN Append(fcs, NewRecord(tc)) ELSE fcs
             ann == IF isNew
                    THEN <<StreamChunkEv(<<"Calling function:", tc.name>>)>>
                    ELSE <<>>
         IN IF ~TruthyText(tc.arguments)
            THEN [fcs |-> fcs1, announce |-> ann, raised |-> FALSE]
            ELSE IF tc.index + 1 > Len(fcs1)
                 THEN [fcs |-> fcs1, announce |-> ann, raised |-> TRUE]
                 ELSE [fcs |-> [fcs1 EXCEPT ![tc.index + 1].arguments =
                                                @ \o tc.arguments[1]],
                       announce |-> ann, raised |-> FALSE]

RECURSIVE AccumulateAll(_, _)
\* main.py 142: for tool_call in chunk.choices[0].delta.tool_calls, until one raises.
AccumulateAll(fcs, tcs) ==
    IF tcs = <<>>
    THEN [fcs |-> fcs, announce |-> <<>>, raised |-> FALSE]
    ELSE LET one == AccumulateFragment(fcs, Head(tcs))
         IN IF one.raised
            THEN one
            ELSE LET rest == AccumulateAll(one.fcs, Tail(tcs))
                 IN [fcs |-> rest.fcs, announce |-> one.announce \o rest.announce,
                     raised |-> rest.raised]

\* The chunk text delivered by a fragment (None counts as the empty text).
ChunkText(tc) == IF tc.function /\ tc.arguments # <<>> THEN tc.arguments[1] ELSE <<>>

RECURSIVE NoteArrived(_, _)
\* The history of the stream after the fragments tcs were delivered.
NoteArrived(h, tcs) ==
    IF tcs = <<>> THEN h
    ELSE LET tc == Head(tcs)
             h1 == IF ~tc.function THEN h
                   ELSE [seen |-> h.seen \cup {tc.index},
                         arrived |-> [h.arrived EXCEPT ![tc.index] = @ \o ChunkText(tc)],
                         first_of |-> IF tc.index \in h.seen THEN h.first_of
                                      ELSE [h.first_of EXCEPT ![tc.index] =
                                                [id |-> tc.id, name |-> tc.name]],
                         conflicting |->
                             IF /\ tc.index \in h.seen
                                /\ \/ tc.id # h.first_of[tc.index].id
                                   \/ tc.name # h.first_of[tc.index].name
                             THEN h.conflicting \cup {tc.index}
                             ELSE h.conflicting]
         IN NoteArrived(h1, Tail(tcs))

NoFragment == [id |-> None, name |-> None]

\* ReceiveWithin with a slip: the user's turn is recorded before the key is looked up.
ReceiveWithinRecordingFirst(d, limit) ==
    /\ pc \in {"idle", "done"}
    /\ nrequests < limit
    /\ nrequests' = nrequests + 1
    /\ data' = d
    /\ nchunks' = 0
    /\ seen' = {}
    /\ arrived' = [i \in 0..MaxIndex |-> <<>>]
    /\ first_of' = [i \in 0..MaxIndex |-> NoFragment]
    /\ conflicting' = {}
    /\ LET old == IF d.thread_id \in DOMAIN conversation_memory
                  THEN conversation_memory[d.thread_id] ELSE <<>>
           turns == Append(old, Turn("user", d.message))
       IN /\ conversation_memory' =
                 [t \in DOMAIN conversation_memory \cup {d.thread_id} |->
                     IF t = d.thread_id THEN turns ELSE conversation_memory[t]]
          /\ IF ~d.has_key
             THEN /\ lexia_log' = <<StreamChunkEv(MissingKeyMsg),
                                    LexiaEv("complete_response", MissingKeyMsg, None, None)>>
                  /\ pc' = "done"
                  /\ UNCHANGED <<messages, full_response, usage_info, function_calls>>
             ELSE /\ messages' = <<Turn("system", SystemPrompt)>> \o LastN(turns, HistoryLimit)
                  /\ full_response' = <<>>
                  /\ usage_info' = None
                  /\ function_calls' = <<>>
                  /\ lexia_log' = <<>>
                  /\ pc' = "streaming"
    /\ UNCHANGED dispVars
    /\ UNCHANGED loadVars
    /\ UNCHANGED taskVars

\* main.py 72-129: the request arrives; without a key it is answered at once.
\* limit bounds the number of requests received.
ReceiveWithin(d, limit) ==
    /\ pc \in {"idle", "done"}
    /\ nrequests < limit
    /\ nrequests' = nrequests + 1
    /\ data' = d
    /\ nchunks' = 0
    /\ seen' = {}
    /\ arrived' = [i \in 0..MaxIndex |-> <<>>]
    /\ first_of' = [i \in 0..MaxIndex |-> NoFragment]
    /\ conflicting' = {}
    /\ IF ~d.has_key
       THEN /\ lexia_log' = <<StreamChunkEv(MissingKeyMsg),
                              LexiaEv("complete_response", MissingKeyMsg, None, None)>>
            /\ pc' = "done"
            /\ UNCHANGED <<conversation_memory, messages, full_response, usage_info,
                           function_calls>>
       ELSE LET old == IF d.thread_id \in DOMAIN conversation_memory
                       THEN conversation_memory[d.thread_id] ELSE <<>>
                turns == Append(old, Turn("user", d.message))
            IN /\ conversation_memory' =
                      [t \in DOMAIN conversation_memory \cup {d.thread_id} |->
                          IF t = d.thread_id THEN turns ELSE conversation_memory[t]]
               /\ messages' = <<Turn("system", SystemPrompt)>> \o LastN(turns, HistoryLimit)
               /\ full_response' = <<>>
               /\ usage_info' = None
               /\ function_calls' = <<>>
               /\ lexia_log' = <<>>
               /\ pc' = "streaming"
    /\ UNCHANGED dispVars
    /\ UNCHANGED loadVars
    /\ UNCHANGED taskVars

Receive(d) == ReceiveWithin(d, MaxRequests)

\* main.py 131-168: one iteration of for chunk in stream; an IndexError raised by the
\* accumulator is caught at 196-199.
Chunk(c) ==
    /\ pc = "streaming"
    /\ nchunks < MaxChunks
    /\ nchunks' = nchunks + 1
    /\ LET hasText == TruthyText(c.content)
           acc == AccumulateAll(function_calls, c.tool_calls)
           h == NoteArrived([seen |-> seen, arrived |-> arrived, first_of |-> first_of,
                             conflicting |-> conflicting], c.tool_calls)
           log1 == (IF hasText THEN Append(lexia_log, StreamChunkEv(c.content[1]))
                    ELSE lexia_log) \o acc.announce
       IN /\ full_response' = IF hasText THEN full_response \o c.content[1]
                              ELSE full_response
          /\ function_calls' = acc.fcs
          /\ seen' = h.seen
          /\ arrived' = h.arrived
          /\ first_of' = h.first_of
          /\ conflicting' = h.conflicting
          /\ IF acc.raised
             THEN /\ lexia_log' = Append(log1, SendErrorEv(IndexErrorText))
                  /\ pc' = "done"
                  /\ UNCHANGED usage_info
             ELSE /\ lexia_log' = log1
                  /\ pc' = "streaming"
                  /\ usage_info' = IF Truthy(c.usage) THEN c.usage ELSE usage_info
    /\ UNCHANGED <<conversation_memory, data, messages, nrequests>>
    /\ UNCHANGED dispVars
    /\ UNCHANGED loadVars
    /\ UNCHANGED taskVars

\* StreamFail with a slip: the failed request is also completed, with the text
\* streamed so far.
StreamFailCompleting ==
    /\ pc = "streaming"
    /\ lexia_log' = lexia_log \o <<SendErrorEv(UpstreamErrorText),
                                    LexiaEv("complete_response", full_response, usage_info,
                                            None)>>
    /\ pc' = "done"
    /\ UNCHANGED <<conversation_memory, data, messages, full_response, usage_info,
                   function_calls, nchunks, nrequests, seen, arrived, first_of,
                   conflicting>>
    /\ UNCHANGED dispVars
    /\ UNCHANGED loadVars
    /\ UNCHANGED taskVars

\* main.py 113-131, 196-199: the provider call or the stream iteration raises.
StreamFail ==
    /\ pc = "streaming"
    /\ lexia_log' = Append(lexia_log, SendErrorEv(UpstreamErrorText))
    /\ pc' = "done"
    /\ UNCHANGED <<conversation_memory, data, messages, full_response, usage_info,
                   function_calls, nchunks, nrequests, seen, arrived, first_of,
                   conflicting>>
    /\ UNCHANGED dispVars
    /\ UNCHANGED loadVars
    /\ UNCHANGED taskVars

\* def process_function_calls(function_calls, session)
ProcessFunctionCallsParams == 2
\* process_function_calls(function_calls, lexia, data)
ProcessMessageCallArgs == 3

\* StreamEnd with a slip: the exception of the call is swallowed, nothing is sent.
StreamEndSilent ==
    /\ pc = "streaming"
    /\ pc' = "done"
    /\ UNCHANGED <<conversation_memory, data, messages, full_response, usage_info,
                   function_calls, nchunks, nrequests, seen, arrived, first_of,
                   conflicting, lexia_log>>
    /\ UNCHANGED dispVars
    /\ UNCHANGED loadVars
    /\ UNCHANGED taskVars

\* main.py 170-199: the stream is exhausted and process_function_calls is called.  A call
\* with the wrong number of positional arguments raises TypeError before the body
\* runs; the exception is caught at 196-199.
StreamEnd ==
    /\ pc = "streaming"
    /\ IF ProcessMessageCallArgs # ProcessFunctionCallsParams
       THEN /\ lexia_log' = Append(lexia_log, SendErrorEv(ArityErrorText))
            /\ pc' = "done"
            /\ UNCHANGED dispVars
       ELSE /\ dpc = "idle"
            /\ pc' = "dispatching"
            /\ calls' = function_calls
            /\ dpc' = "called"
            /\ UNCHANGED <<lexia_log, idx, output, file_url, session, ret, ninvocations,
                           executed, file_url_from>>
    /\ UNCHANGED <<conversation_memory, data, messages, full_response, usage_info,
                   function_calls, nchunks, nrequests, seen, arrived, first_of,
                   conflicting>>
    /\ UNCHANGED loadVars
    /\ UNCHANGED taskVars

(***************************************************************************)
(* src/function_handler.py: argument decoding.                             *)
(*                                                                         *)
(* An arguments text is a sequence of tokens: "{", "}", one token per      *)
(* "key": value member, and "[1]" for a JSON text that is not an object.   *)
(***************************************************************************)
PlaceholderUrl == "https://fsn1.your-objectstorage.com/lexia-production/demo/images/generated_1758945096.png"

Track(url, label, mime) == [url |-> url, label |-> label, mime_type |-> mime]
Button(type, label, url, id, value) ==
    [type |-> type, label |-> label, url |-> url, id |-> id, value |-> value]

\* The members an arguments text may hold: token -> <<key, value>>.
Member(tok) ==
    CASE tok = "prompt:a cat" -> <<"prompt", "a cat">>
      [] tok = "size:512" -> <<"size", "512x512">>
      [] tok = "bogus:1" -> <<"bogus", "1">>
      [] tok = "quality:hd" -> <<"quality", "hd">>
      [] tok = "style:natural" -> <<"style", "natural">>
      [] tok = "url:u" -> <<"url", "https://example.com/u">>
      [] tok = "is_youtube:true" -> <<"is_youtube", "true">>
      [] tok = "is_youtube:false" -> <<"is_youtube", "false">>
      [] tok = "label:l" -> <<"label", "l">>
      [] tok = "mime_type:m" -> <<"mime_type", "audio/mpeg">>
      [] tok = "lat:35" -> <<"lat", "35">>
      [] tok = "lng:51" -> <<"lng", "51">>
      [] tok = "content:c" -> <<"content", "c">>
      [] tok = "visibility:admin" -> <<"visibility", "admin">>
      [] tok = "tokens:5" -> <<"tokens", "5">>
      [] tok = "token_type:prompt" -> <<"token_type", "prompt">>
      [] tok = "cards:[c]" -> <<"cards", <<"card1">> >>
      [] tok = "count:2" -> <<"count", 2>>
      [] tok = "states:[s]" -> <<"states", <<"thinking", "bogus">> >>
      [] tok = "tracks:[]" -> <<"tracks", <<>> >>
      [] tok = "tracks:[t]" -> <<"tracks", <<Track("https://example.com/t1", "one", None)>> >>
      [] tok = "tracks:[t,t]" ->
             <<"tracks", <<Track("https://example.com/t1", "one", "audio/mpeg"),
                           Track("https://example.com/t2", None, None)>> >>
      [] tok = "tracks:[nourl]" -> <<"tracks", <<Track(None, "one", None)>> >>
      [] tok = "buttons:[]" -> <<"buttons", <<>> >>
      [] tok = "buttons:[noid,a]" ->
             <<"buttons", <<Button("action", "X", None, None, None),
                            Button("action", "A", None, "act1", None)>> >>
      [] tok = "buttons:[a,l]" ->
             <<"buttons", <<Button("action", "A", None, "act1", None),
                            Button("link", "L", "https://example.com/l", None, None)>> >>
      [] tok = "buttons:[a,noid,l]" ->
             <<"buttons", <<Button(None, "A", None, None, "act1"),
                            Button("link", "X", None, None, None),
                            Button("link", "L", None, None, "https://example.com/l")>> >>

MemberTokens ==
    {"prompt:a cat", "size:512", "bogus:1", "url:u", "is_youtube:true", "is_youtube:false",
     "label:l", "mime_type:m", "lat:35", "lng:51", "content:c", "visibility:admin",
     "tokens:5", "token_type:prompt", "cards:[c]", "count:2", "states:[s]", "tracks:[]",
     "tracks:[t]", "tracks:[t,t]", "tracks:[nourl]", "buttons:[a,l]", "buttons:[a,noid,l]",
     "quality:hd", "style:natural", "buttons:[]", "buttons:[noid,a]"}

RECURSIVE Members(_)
\* The keys and values of the members, a later member replacing an earlier one of the same key.
Members(toks) ==
    IF toks = <<>> THEN [k \in {} |-> None]
    ELSE LET rest == Members(SubSeq(toks, 1, Len(toks) - 1))
             m == Member(toks[Len(toks)])
         IN [k \in DOMAIN rest \cup {m[1]} |-> IF k = m[1] THEN m[2] ELSE rest[k]]

\* json.loads(text): ok = FALSE is json.JSONDecodeError.  An object decodes to its
\* mapping (isdict), "[1]" to a list.
JsonLoads(text) ==
    IF text = <<"[1]">>
    THEN [ok |-> TRUE, isdict |-> FALSE, map |-> [k \in {} |-> None]]
    ELSE IF /\ Len(text) >= 2
            /\ text[1] = "{"
            /\ text[Len(text)] = "}"
            /\ \A i \in 2..(Len(text) - 1) : text[i] \in MemberTokens
         THEN [ok |-> TRUE, isdict |-> TRUE, map |-> Members(SubSeq(text, 2, Len(text) - 1))]
         ELSE [ok |-> FALSE, isdict |-> FALSE, map |-> [k \in {} |-> None]]

\* bool(v) of a decoded JSON scalar (None stands for an absent member).
TruthyValue(v) == v \notin {None, "false", "", "0"}

\* d.get(k, default) of a decoded mapping.
Get(map, k, default) == IF k \in DOMAIN map THEN map[k] ELSE default

\* str(e)
JSONDecodeErrorText == <<"JSONDecodeError: Expecting value">>
KeyErrorText(k) == <<"KeyError", k>>
NotAMappingText == <<"TypeError: argument after ** must be a mapping, not list">>
BadKeywordsText == <<"TypeError: generate_image_with_dalle() got unexpected or missing arguments">>
ListIndexText == <<"TypeError: list indices must be integers or slices, not str">>
NoGetText == <<"AttributeError: 'list' object has no attribute 'get'">>

(***************************************************************************)
(* Calls on the session.                                                   *)
(***************************************************************************)
Ev(op, arg) == [op |-> op, arg |-> arg]
Stream(text) == Ev("stream", text)
LoadingStart(key) == Ev("loading.start", <<key>>)
LoadingEnd(key) == Ev("loading.end", <<key>>)

\* function_handler.py 371-374: _fail.
Fail(fn_name, err) ==
    [kind |-> "fail", result |-> <<"Function Execution Error: Error executing function", fn_name>> \o err,
     url |-> None]

\* What a handler did: raised (an exception left the handler), err (its str), the
\* returned pair (result, url) with the kind of result, and its calls on the session.
Returned(kind, result, url, events) ==
    [raised |-> FALSE, err |-> <<>>, kind |-> kind, result |-> result, url |-> url,
     events |-> events]
Raised(err, events) ==
    [raised |-> TRUE, err |-> err, kind |-> "raised", result |-> <<>>, url |-> None,
     events |-> events]
Failed(fn_name, err, events) ==
    LET f == Fail(fn_name, err) IN Returned(f.kind, f.result, f.url, events)

\* RunWithLoading with a slip: no finally clause, loading.end is never signalled.
RunWithLoadingNoEnd(key) == <<LoadingStart(key)>>

\* function_handler.py 354-368: _run_with_loading around a job that makes no session
\* call: start, the job (and the wait up to min_delay), end in the finally clause.
RunWithLoading(key) == <<LoadingStart(key), LoadingEnd(key)>>

(***************************************************************************)
(* src/function_handler.py: the tool handlers.  Each takes the raw         *)
(* arguments text of the call.                                             *)
(***************************************************************************)
\* function_handler.py 350-351 and a subscript args[k]: what args[k] raises, if anything.
\* <<>>: nothing is raised.
SubscriptError(p, k) ==
    IF ~p.isdict THEN ListIndexText
    ELSE IF k \notin DOMAIN p.map THEN KeyErrorText(k) ELSE <<>>

RECURSIVE FirstError(_, _)
\* The error of the first failing subscript among keys, in order.
FirstError(p, keys) ==
    IF keys = <<>> THEN <<>>
    ELSE IF SubscriptError(p, Head(keys)) # <<>> THEN SubscriptError(p, Head(keys))
         ELSE FirstError(p, Tail(keys))

ImageParams == {"prompt", "size", "quality", "style"}

\* function_handler.py 381-420
handle_generate_image(raw) ==
    LET p == JsonLoads(raw)
        start == <<Stream(<<"Executing function: generate_image (Dummy Mode)">>)>>
    IN IF ~p.ok THEN Raised(JSONDecodeErrorText, <<>>)
       ELSE IF ~p.isdict
            THEN Failed("generate_image", NotAMappingText, start \o RunWithLoading("generating"))
       ELSE IF ~(DOMAIN p.map \subseteq ImageParams /\ "prompt" \in DOMAIN p.map)
            THEN Failed("generate_image", BadKeywordsText, start \o RunWithLoading("generating"))
       ELSE LET result == <<"Dummy Image Generated Successfully! Prompt:", p.map["prompt"]>>
            IN Returned("ok", result, PlaceholderUrl,
                        start \o RunWithLoading("generating")
                        \o <<Ev("image.send", <<PlaceholderUrl>>), Stream(result)>>)

\* handle_send_video with a slip: the is_youtube flag is not looked at.
handle_send_video_ignores_flag(raw) ==
    LET p == JsonLoads(raw)
    IN IF ~p.ok THEN Raised(JSONDecodeErrorText, <<>>)
       ELSE IF SubscriptError(p, "url") # <<>>
            THEN Failed("send_video", SubscriptError(p, "url"), RunWithLoading("video"))
       ELSE Returned("ok", <<"Video sent:", p.map["url"]>>, None,
                     RunWithLoading("video") \o <<Ev("video.send", <<p.map["url"]>>)>>)

\* function_handler.py 423-441
handle_send_video(raw) ==
    LET p == JsonLoads(raw)
    IN IF ~p.ok THEN Raised(JSONDecodeErrorText, <<>>)
       ELSE IF SubscriptError(p, "url") # <<>>
            THEN Failed("send_video", SubscriptError(p, "url"), RunWithLoading("video"))
       ELSE LET url == p.map["url"]
                is_youtube == Get(p.map, "is_youtube", "false")
            IN Returned("ok", <<"Video sent:", url>>, None,
                        RunWithLoading("video")
                        \o <<Ev(IF TruthyValue(is_youtube) THEN "video.youtube" ELSE "video.send",
                                <<url>>)>>)

\* function_handler.py 459-464: the dict sent for one track.
TrackDict(track) ==
    <<"url", track.url>>
    \o (IF TruthyValue(track.label) THEN <<"label", track.label>> ELSE <<>>)
    \o (IF TruthyValue(track.mime_type) THEN <<"type", track.mime_type>> ELSE <<>>)

\* function_handler.py 444-479
handle_send_audio(raw) ==
    LET p == JsonLoads(raw)
        load == RunWithLoading("audio")
    IN IF ~p.ok THEN Raised(JSONDecodeErrorText, <<>>)
       ELSE IF p.isdict /\ "tracks" \in DOMAIN p.map /\ p.map["tracks"] # <<>>
            THEN LET tracks == p.map["tracks"]
                 IN IF \E i \in 1..Len(tracks) : tracks[i].url = None
                    THEN Failed("send_audio", KeyErrorText("url"), load)
                    ELSE Returned("ok", <<ToString(Len(tracks)), "audio track(s) sent">>, None,
                                  load \o <<Ev("audio.send",
                                               Flatten([i \in 1..Len(tracks) |->
                                                           TrackDict(tracks[i])]))>>)
       ELSE IF p.isdict /\ "url" \in DOMAIN p.map
            THEN Returned("ok", <<"Audio sent">>, None,
                          load \o <<Ev("audio.send_single",
                                       <<p.map["url"], Get(p.map, "label", None),
                                         Get(p.map, "mime_type", None)>>)>>)
       ELSE Returned("noaudio", <<"No audio URL or tracks provided">>, None, load)

\* function_handler.py 482-495
handle_send_location(raw) ==
    LET p == JsonLoads(raw)
        err == FirstError(p, <<"lat", "lng">>)
    IN IF ~p.ok THEN Raised(JSONDecodeErrorText, <<>>)
       ELSE IF err # <<>> THEN Failed("send_location", err, RunWithLoading("map"))
       ELSE Returned("ok", <<"Location sent">>, None,
                     RunWithLoading("map")
                     \o <<Ev("location.send_coordinates", <<p.map["lat"], p.map["lng"]>>)>>)

\* function_handler.py 498-501
handle_send_trace(raw) ==
    LET p == JsonLoads(raw)
    IN IF ~p.ok THEN Raised(JSONDecodeErrorText, <<>>)
       ELSE IF SubscriptError(p, "content") # <<>>
            THEN Raised(SubscriptError(p, "content"), <<>>)
       ELSE Returned("ok", <<"Trace sent">>, None,
                     <<Ev("tracing.send",
                          <<p.map["content"], Get(p.map, "visibility", "all")>>)>>)

\* function_handler.py 509-527: the add call of one button entry, none when it is skipped.
ButtonAdd(b) ==
    LET button_type == IF b.type = None THEN "action" ELSE b.type
        label == IF b.label = None THEN "" ELSE b.label
        fallback == IF b.value = None THEN "" ELSE b.value
    IN IF button_type = "link"
       THEN LET url == PyOr(b.url, fallback)
            IN IF ~Truthy(url) THEN <<>> ELSE <<Ev("button.add_link", <<label, url>>)>>
       ELSE LET action_id == PyOr(b.id, fallback)
            IN IF ~Truthy(action_id) THEN <<>>
               ELSE <<Ev("button.add_action", <<label, action_id>>)>>

RECURSIVE AddsUntilMissing(_)
\* The add calls of the entries in front of the first entry that is skipped.
AddsUntilMissing(buttons) ==
    IF buttons = <<>> \/ ButtonAdd(Head(buttons)) = <<>> THEN <<>>
    ELSE ButtonAdd(Head(buttons)) \o AddsUntilMissing(Tail(buttons))

\* handle_send_buttons with a slip: break instead of continue, so the entries after
\* one without identifier are not added.
handle_send_buttons_stops_at_missing(raw) ==
    LET p == JsonLoads(raw)
    IN IF ~p.ok THEN Raised(JSONDecodeErrorText, <<>>)
       ELSE IF SubscriptError(p, "buttons") # <<>>
            THEN Raised(SubscriptError(p, "buttons"), <<Ev("button.begin", <<>>)>>)
       ELSE Returned("ok", <<"Buttons sent">>, None,
                     <<Ev("button.begin", <<>>)>>
                     \o AddsUntilMissing(p.map["buttons"])
                     \o <<Ev("button.end", <<>>)>>)

\* function_handler.py 504-531
handle_send_buttons(raw) ==
    LET p == JsonLoads(raw)
    IN IF ~p.ok THEN Raised(JSONDecodeErrorText, <<>>)
       ELSE IF SubscriptError(p, "buttons") # <<>>
            THEN Raised(SubscriptError(p, "buttons"), <<Ev("button.begin", <<>>)>>)
       ELSE LET buttons == p.map["buttons"]
            IN Returned("ok", <<"Buttons sent">>, None,
                        <<Ev("button.begin", <<>>)>>
                        \o Flatten([i \in 1..Len(buttons) |-> ButtonAdd(buttons[i])])
                        \o <<Ev("button.end", <<>>)>>)

\* function_handler.py 534-547
handle_send_card_list(raw) ==
    LET p == JsonLoads(raw)
    IN IF ~p.ok THEN Raised(JSONDecodeErrorText, <<>>)
       ELSE IF SubscriptError(p, "cards") # <<>>
            THEN Failed("send_card_list", SubscriptError(p, "cards"), RunWithLoading("card.list"))
       ELSE Returned("ok", <<"Card list sent">>, None,
                     RunWithLoading("card.list") \o <<Ev("card.send", p.map["cards"])>>)

\* function_handler.py 550-558
handle_track_usage(raw) ==
    LET p == JsonLoads(raw)
        err == FirstError(p, <<"tokens", "token_type">>)
    IN IF ~p.ok THEN Raised(JSONDecodeErrorText, <<>>)
       ELSE IF err # <<>> THEN Raised(err, <<>>)
       ELSE Returned("ok", <<"Usage tracked">>, None,
                     <<Ev("usage.track", <<p.map["tokens"], p.map["token_type"],
                                           Get(p.map, "cost", None), Get(p.map, "label", None)>>)>>)

\* function_handler.py 565-573: _demo_loading_state.
DemoLoadingState(state_name, message) ==
    <<LoadingStart(state_name), Stream(<<message>>), LoadingEnd(state_name)>>

NewLine == Stream(<<"\n">>)
DemoImageUrl == "https://picsum.photos/400/300"
DemoVideoUrl == "https://commondatastorage.googleapis.com/gtv-videos-bucket/sample/BigBuckBunny.mp4"
DemoYoutubeUrl == "https://www.youtube.com/watch?v=dQw4w9WgXcQ"
LoadingStates == <<"thinking", "searching", "analyzing", "coding", "generating">>

\* function_handler.py 840-846: the tracks of the audio demos.
DemoTracks(count) ==
    Flatten([i \in 1..count |-> <<"url", "SoundHelix-Song", ToString(i),
                                  "label", "Sample Audio", ToString(i), "type", "audio/mpeg">>])

\* function_handler.py 636-650: _demo_buttons.
DemoButtons ==
    <<Stream(<<"## Additional Content">>),
      Ev("button.begin", <<>>),
      Ev("button.add_action", <<"Get More Info", "1">>),
      Ev("button.add_action", <<"Save Results", "2">>),
      Ev("button.add_link", <<"Visit Website", "https://example.com">>),
      Ev("button.end", <<>>),
      NewLine>>

\* function_handler.py 576-742: handle_complete_streaming_example and its helpers.
handle_complete_streaming_example(raw) ==
    Returned("ok", <<"Complete streaming example executed successfully!">>, None,
        DemoLoadingState("thinking", "Thinking...")
        \o DemoLoadingState("searching", "Searching...")
        \o DemoLoadingState("analyzing", "Analyzing...")
        \o DemoLoadingState("coding", "Coding...")
        \o DemoLoadingState("generating", "Generating...")
        \o DemoLoadingState("image", "Image loaded successfully!")
        \o <<Ev("image.send", <<DemoImageUrl>>), NewLine>>
        \o DemoLoadingState("video", "Video loaded!")
        \o <<Ev("video.send", <<DemoVideoUrl>>), NewLine>>
        \o DemoLoadingState("youtube", "YouTube video loaded!")
        \o <<Ev("video.youtube", <<DemoYoutubeUrl>>), NewLine>>
        \o DemoLoadingState("card.list", "Cards loaded!")
        \o <<Ev("card.send", <<"Card 1", "Card 2", "Card 3">>), NewLine>>
        \o DemoLoadingState("map", "Map loaded! This is Tehran, Iran.")
        \o <<Ev("location.send_coordinates", <<"35.6892", "51.3890">>), NewLine>>
        \o <<Stream(<<"## Audio Content">>)>>
        \o DemoLoadingState("audio", "")
        \o <<Ev("audio.send", DemoTracks(2)), NewLine>>
        \o <<Stream(<<"## Code Example">>)>>
        \o <<Stream(<<"## Tracing Information">>),
             Ev("tracing.send", <<"req_complete_stream", "all">>), NewLine>>
        \o DemoButtons)

\* function_handler.py 754-758: one state of the list.
TestOneState(state) ==
    IF \E i \in 1..Len(LoadingStates) : LoadingStates[i] = state
    THEN DemoLoadingState(state, "state tested!")
    ELSE <<Stream(<<"Unknown state:", state>>)>>

\* function_handler.py 745-762
handle_test_loading_states(raw) ==
    LET p == JsonLoads(raw)
    IN IF ~p.ok THEN Raised(JSONDecodeErrorText, <<>>)
       ELSE IF ~p.isdict THEN Raised(NoGetText, <<>>)
       ELSE LET states == Get(p.map, "states", LoadingStates)
            IN Returned("ok", <<"Tested", ToString(Len(states)), "loading state(s) successfully!">>,
                        None,
                        <<Stream(<<"# Testing Loading States", ToString(Len(states))>> \o states)>>
                        \o Flatten([i \in 1..Len(states) |-> TestOneState(states[i])]))

\* function_handler.py 765-779
handle_test_image(raw) ==
    LET p == JsonLoads(raw)
    IN IF ~p.ok THEN Raised(JSONDecodeErrorText, <<>>)
       ELSE IF ~p.isdict THEN Raised(NoGetText, <<>>)
       ELSE LET url == Get(p.map, "url", DemoImageUrl)
            IN Returned("ok", <<"Image test completed:", url>>, None,
                        <<Stream(<<"# Testing Image", url>>)>>
                        \o DemoLoadingState("image", "Image loaded successfully!")
                        \o <<Ev("image.send", <<url>>), NewLine>>)

\* function_handler.py 782-800
handle_test_video(raw) ==
    LET p == JsonLoads(raw)
    IN IF ~p.ok THEN Raised(JSONDecodeErrorText, <<>>)
       ELSE IF ~p.isdict THEN Raised(NoGetText, <<>>)
       ELSE LET url == Get(p.map, "url", DemoVideoUrl)
                is_youtube == TruthyValue(Get(p.map, "is_youtube", "false"))
            IN Returned("ok", <<"Video test completed:", url>>, None,
                        <<Stream(<<"# Testing Video", url>>)>>
                        \o DemoLoadingState(IF ~is_youtube THEN "video" ELSE "youtube",
                                            "Video loaded!")
                        \o <<Ev(IF is_youtube THEN "video.youtube" ELSE "video.send", <<url>>),
                             NewLine>>)

\* function_handler.py 803-825
handle_test_cards(raw) ==
    LET p == JsonLoads(raw)
    IN IF ~p.ok THEN Raised(JSONDecodeErrorText, <<>>)
       ELSE IF ~p.isdict THEN Raised(NoGetText, <<>>)
       ELSE LET count == Get(p.map, "count", 3)
            IN Returned("ok", <<"Cards test completed:", ToString(count)>>, None,
                        <<Stream(<<"# Testing Cards", ToString(count)>>)>>
                        \o DemoLoadingState("card.list", "cards loaded!")
                        \o <<Ev("card.send", [i \in 1..count |-> "Card"]), NewLine>>)

\* function_handler.py 828-851
handle_test_audio(raw) ==
    LET p == JsonLoads(raw)
    IN IF ~p.ok THEN Raised(JSONDecodeErrorText, <<>>)
       ELSE IF ~p.isdict THEN Raised(NoGetText, <<>>)
       ELSE LET count == Get(p.map, "count", 2)
            IN Returned("ok", <<"Audio test completed:", ToString(count)>>, None,
                        <<Stream(<<"# Testing Audio", ToString(count)>>)>>
                        \o DemoLoadingState("audio", "")
                        \o <<Ev("audio.send", DemoTracks(count)), NewLine>>)

\* function_handler.py 854-869
handle_test_map(raw) ==
    LET p == JsonLoads(raw)
    IN IF ~p.ok THEN Raised(JSONDecodeErrorText, <<>>)
       ELSE IF ~p.isdict THEN Raised(NoGetText, <<>>)
       ELSE LET lat == Get(p.map, "lat", "35.6892")
                lng == Get(p.map, "lng", "51.3890")
            IN Returned("ok", <<"Map test completed:", lat, lng>>, None,
                        <<Stream(<<"# Testing Map", lat, lng>>)>>
                        \o DemoLoadingState("map", "Map loaded!")
                        \o <<Ev("location.send_coordinates", <<lat, lng>>), NewLine>>)

\* function_handler.py 883-886: button i of the test.
TestButton(i) ==
    IF i % 2 = 0
    THEN Ev("button.add_link", <<"Link", ToString(i)>>)
    ELSE Ev("button.add_action", <<"Action", ToString(i)>>)

\* function_handler.py 872-891
handle_test_buttons(raw) ==
    LET p == JsonLoads(raw)
    IN IF ~p.ok THEN Raised(JSONDecodeErrorText, <<>>)
       ELSE IF ~p.isdict THEN Raised(NoGetText, <<>>)
       ELSE LET count == Get(p.map, "count", 3)
            IN Returned("ok", <<"Buttons test completed:", ToString(count)>>, None,
                        <<Stream(<<"# Testing Buttons", ToString(count)>>)>>
                        \o <<Ev("button.begin", <<>>)>>
                        \o [i \in 1..count |-> TestButton(i)]
                        \o <<Ev("button.end", <<>>), NewLine>>)

(***************************************************************************)
(* src/function_handler.py: the dispatcher.                                *)
(***************************************************************************)
\* function_handler.py 27-343: the names of the tools of AVAILABLE_FUNCTIONS.
RegistryNames ==
    {"generate_image", "send_video", "send_audio", "send_location", "send_trace",
     "send_buttons", "send_card_list", "track_usage", "complete_streaming_example",
     "test_loading_states", "test_image", "test_video", "test_cards", "test_audio",
     "test_map", "test_buttons"}

\* FunctionHandlerNames with a slip: the entry of test_map is missing.
FunctionHandlerNamesWithoutTestMap == RegistryNames \ {"test_map"}

\* function_handler.py 898-915: the keys of FUNCTION_HANDLERS.
FunctionHandlerNames ==
    {"generate_image", "send_video", "send_audio", "send_location", "send_trace",
     "send_buttons", "send_card_list", "track_usage", "complete_streaming_example",
     "test_loading_states", "test_image", "test_video", "test_cards", "test_audio",
     "test_map", "test_buttons"}

\* FUNCTION_HANDLERS[fn_name](function_call, session)
Handler(fn_name, raw) ==
    CASE fn_name = "generate_image" -> handle_generate_image(raw)
      [] fn_name = "send_video" -> handle_send_video(raw)
      [] fn_name = "send_audio" -> handle_send_audio(raw)
      [] fn_name = "send_location" -> handle_send_location(raw)
      [] fn_name = "send_trace" -> handle_send_trace(raw)
      [] fn_name = "send_buttons" -> handle_send_buttons(raw)
      [] fn_name = "send_card_list" -> handle_send_card_list(raw)
      [] fn_name = "track_usage" -> handle_track_usage(raw)
      [] fn_name = "complete_streaming_example" -> handle_complete_streaming_example(raw)
      [] fn_name = "test_loading_states" -> handle_test_loading_states(raw)
      [] fn_name = "test_image" -> handle_test_image(raw)
      [] fn_name = "test_video" -> handle_test_video(raw)
      [] fn_name = "test_cards" -> handle_test_cards(raw)
      [] fn_name = "test_audio" -> handle_test_audio(raw)
      [] fn_name = "test_map" -> handle_test_map(raw)
      [] fn_name = "test_buttons" -> handle_test_buttons(raw)

RECURSIVE DumpKeys(_, _)
\* json.dumps of a decoded object, by its keys: each key once, in the order of its
\* first member.
DumpKeys(toks, done) ==
    IF toks = <<>> THEN <<>>
    ELSE LET k == Member(Head(toks))[1]
         IN (IF k \in done THEN <<>> ELSE <<k>>) \o DumpKeys(Tail(toks), done \cup {k})

\* function_handler.py 924-932: the announcement of the call and of its arguments.
AnnounceCall(fn_name, fn_args) ==
    LET p == JsonLoads(fn_args)
    IN <<Stream(<<"Tool Called:", fn_name>>)>>
       \o (IF fn_args # <<>> /\ fn_args # <<"{", "}">> /\ p.ok
              /\ (~p.isdict \/ DOMAIN p.map # {})
           THEN <<Stream(<<"Arguments:">>
                         \o (IF p.isdict THEN DumpKeys(SubSeq(fn_args, 2, Len(fn_args) - 1), {})
                             ELSE <<"[", "1", "]">>))>>
           ELSE <<>>)

\* execute_function_call with a slip: an unregistered name is skipped silently.
execute_function_call_skips_unknown(fc) ==
    LET fn_name == fc.name
        fn_args == fc.arguments
        ann == AnnounceCall(fn_name, fn_args)
    IN IF fn_name \notin FunctionHandlerNames
       THEN [kind |-> "unknown", result |-> <<>>, url |-> None,
             events |-> ann, handler_called |-> FALSE, handler_raised |-> FALSE]
       ELSE LET h == Handler(fn_name, fn_args)
            IN IF h.raised
               THEN [kind |-> "fail", result |-> Fail(fn_name, h.err).result, url |-> None,
                     events |-> ann \o h.events, handler_called |-> TRUE,
                     handler_raised |-> TRUE]
               ELSE [kind |-> h.kind, result |-> h.result, url |-> h.url,
                     events |-> ann \o h.events, handler_called |-> TRUE,
                     handler_raised |-> FALSE]

\* execute_function_call with a slip: no except clause around the handler, so an
\* exception that leaves a handler yields no failure message.
execute_function_call_no_except(fc) ==
    LET fn_name == fc.name
        fn_args == fc.arguments
        ann == AnnounceCall(fn_name, fn_args)
    IN IF fn_name \notin FunctionHandlerNames
       THEN [kind |-> "unknown", result |-> <<"Unknown function:", fn_name>>, url |-> None,
             events |-> ann, handler_called |-> FALSE, handler_raised |-> FALSE]
       ELSE LET h == Handler(fn_name, fn_args)
            IN [kind |-> h.kind, result |-> h.result, url |-> h.url,
                events |-> ann \o h.events, handler_called |-> TRUE,
                handler_raised |-> h.raised]

\* function_handler.py 918-945: execute_function_call.  handler_called, handler_raised:
\* whether a handler was invoked and whether an exception left it.
execute_function_call(fc) ==
    LET fn_name == fc.name
        fn_args == fc.arguments
        ann == AnnounceCall(fn_name, fn_args)
    IN IF fn_name \notin FunctionHandlerNames
       THEN [kind |-> "unknown", result |-> <<"Unknown function:", fn_name>>, url |-> None,
             events |-> ann, handler_called |-> FALSE, handler_raised |-> FALSE]
       ELSE LET h == Handler(fn_name, fn_args)
            IN IF h.raised
               THEN [kind |-> "fail", result |-> Fail(fn_name, h.err).result, url |-> None,
                     events |-> ann \o h.events, handler_called |-> TRUE,
                     handler_raised |-> TRUE]
               ELSE [kind |-> h.kind, result |-> h.result, url |-> h.url,
                     events |-> ann \o h.events, handler_called |-> TRUE,
                     handler_raised |-> FALSE]

\* A reassembled tool call, as the accumulator builds it.
ToolCall(id, name, arguments) == [id |-> id, name |-> name, arguments |-> arguments]

\* The calls a batch is made of: every handler with well-formed, incomplete and
\* malformed arguments, an unregistered name and a call without a name.
CallInputs ==
    {ToolCall("call_1", c[1], c[2]) : c \in
        {<<"generate_image", <<"{", "prompt:a cat", "}">> >>,
         <<"generate_image", <<"{", "prompt:a cat">> >>,
         <<"generate_image", <<"{", "}">> >>,
         <<"send_video", <<"{", "url:u", "is_youtube:true", "}">> >>,
         <<"send_video", <<"{", "}">> >>,
         <<"send_audio", <<"{", "tracks:[t]", "url:u", "}">> >>,
         <<"send_audio", <<"{", "}">> >>,
         <<"send_location", <<"{", "lat:35", "lng:51", "}">> >>,
         <<"send_location", <<"{", "lat:35">> >>,
         <<"send_trace", <<"{", "content:c", "}">> >>,
         <<"send_trace", <<"{", "}">> >>,
         <<"send_trace", <<"[1]">> >>,
         <<"send_buttons", <<"{", "buttons:[a,noid,l]", "}">> >>,
         <<"send_buttons", <<"{", "}">> >>,
         <<"send_card_list", <<"{", "cards:[c]", "}">> >>,
         <<"track_usage", <<"{", "tokens:5", "token_type:prompt", "}">> >>,
         <<"track_usage", <<"{", "tokens:5", "}">> >>,
         <<"complete_streaming_example", <<>> >>,
         <<"test_loading_states", <<"{", "states:[s]", "}">> >>,
         <<"test_image", <<>> >>,
         <<"test_video", <<"{", "}">> >>,
         <<"test_cards", <<"{", "count:2", "}">> >>,
         <<"test_audio", <<"[1]">> >>,
         <<"test_map", <<"{", "}">> >>,
         <<"test_buttons", <<"{", "}">> >>,
         <<"no_such_tool", <<"{", "}">> >>,
         <<None, <<>> >>}}

\* The members a send_audio call may carry (schema at function_handler.py 75-101).
AudioMemberTokens ==
    {"tracks:[]", "tracks:[t]", "tracks:[t,t]", "tracks:[nourl]", "url:u", "label:l",
     "mime_type:m"}

\* The arguments texts of a send_audio call: objects of up to MaxMembers members, a
\* JSON text that is no object, a truncated text and the empty text.
AudioArguments ==
    {<<"{">> \o body \o <<"}">> :
        body \in UNION {[1..n -> AudioMemberTokens] : n \in 0..MaxMembers}}
    \cup {<<"[1]">>, <<"{">>, <<>>}

\* The tools called on their own, and the members each may carry.
OneCallTools == {"send_buttons", "send_video", "generate_image"}

ToolMemberTokens(name) ==
    CASE name = "send_buttons" ->
             {"buttons:[]", "buttons:[a,l]", "buttons:[a,noid,l]", "buttons:[noid,a]",
              "label:l"}
      [] name = "send_video" -> {"url:u", "is_youtube:true", "is_youtube:false", "label:l"}
      [] name = "generate_image" ->
             {"prompt:a cat", "size:512", "quality:hd", "style:natural", "bogus:1"}

\* The arguments texts over the members tokens: objects of up to MaxMembers members,
\* a JSON text that is no object, a truncated text and the empty text.
ArgumentsOver(tokens) ==
    {<<"{">> \o body \o <<"}">> :
        body \in UNION {[1..n -> tokens] : n \in 0..MaxMembers}}
    \cup {<<"[1]">>, <<"{">>, <<>>}

\* The batches handed to process_function_calls.
Batches == UNION {[1..n -> CallInputs] : n \in 0..MaxCalls}

NoReturn == [output |-> <<"(no value)">>, file_url |-> None]

\* Invoke with a slip: no early return for an empty batch.
InvokeNoEarlyReturn(batch) ==
    /\ dpc \in {"idle", "returned"}
    /\ ninvocations < MaxInvocations
    /\ ninvocations' = ninvocations + 1
    /\ calls' = batch
    /\ batch # <<>> => session = <<>>
    /\ session' = Append(session, Stream(<<"Executing", ToString(Len(batch)), "tool(s)...">>))
    /\ output' = <<>>
    /\ file_url' = None
    /\ file_url_from' = 0
    /\ idx' = 1
    /\ executed' = <<>>
    /\ ret' = NoReturn
    /\ dpc' = "loop"
    /\ UNCHANGED mainVars
    /\ UNCHANGED loadVars
    /\ UNCHANGED taskVars

\* function_handler.py 956-964: process_function_calls is called.  An empty batch
\* returns at once.  The session handed over with a non-empty batch is one that has
\* not been used (a session lives for one request).
Invoke(batch) ==
    /\ dpc \in {"idle", "returned"}
    /\ ninvocations < MaxInvocations
    /\ ninvocations' = ninvocations + 1
    /\ calls' = batch
    /\ IF batch = <<>>
       THEN /\ ret' = [output |-> <<>>, file_url |-> None]
            /\ dpc' = "returned"
            /\ UNCHANGED <<idx, output, file_url, session, executed, file_url_from>>
       ELSE /\ session = <<>>
            /\ session' = <<Stream(<<"Executing", ToString(Len(batch)), "tool(s)...">>)>>
            /\ output' = <<>>
            /\ file_url' = None
            /\ file_url_from' = 0
            /\ idx' = 1
            /\ executed' = <<>>
            /\ ret' = NoReturn
            /\ dpc' = "loop"
    /\ UNCHANGED mainVars
    /\ UNCHANGED loadVars
    /\ UNCHANGED taskVars

\* ExecuteWith with a slip: the result is put in front of the output.
ExecuteWithPrepend(fc, r) ==
    /\ session' = session
           \o <<Stream(<<"--- Tool", ToString(idx), ToString(Len(calls)), fc.name>>)>>
           \o r.events
    /\ output' = r.result \o output
    /\ file_url' = PyOr(file_url, r.url)
    /\ file_url_from' = IF Truthy(file_url) THEN file_url_from
                        ELSE IF Truthy(r.url) THEN idx ELSE 0
    /\ executed' = Append(executed, [pos |-> idx, name |-> fc.name, kind |-> r.kind,
                                     result |-> r.result, url |-> r.url,
                                     handler_called |-> r.handler_called,
                                     handler_raised |-> r.handler_raised])

\* ExecuteWith with a slip: file_url = url, so a later call's URL (or None) replaces
\* the first one.
ExecuteWithLastUrl(fc, r) ==
    /\ session' = session
           \o <<Stream(<<"--- Tool", ToString(idx), ToString(Len(calls)), fc.name>>)>>
           \o r.events
    /\ output' = output \o r.result
    /\ file_url' = r.url
    /\ file_url_from' = IF Truthy(r.url) THEN idx ELSE 0
    /\ executed' = Append(executed, [pos |-> idx, name |-> fc.name, kind |-> r.kind,
                                     result |-> r.result, url |-> r.url,
                                     handler_called |-> r.handler_called,
                                     handler_raised |-> r.handler_raised])

\* ExecuteWith with a slip: what the call emits is put in front of what the session
\* already holds, as if the call had run before the earlier ones.
ExecuteWithEventsFirst(fc, r) ==
    /\ session' = <<Stream(<<"--- Tool", ToString(idx), ToString(Len(calls)), fc.name>>)>>
           \o r.events
           \o session
    /\ output' = output \o r.result
    /\ file_url' = PyOr(file_url, r.url)
    /\ file_url_from' = IF Truthy(file_url) THEN file_url_from
                        ELSE IF Truthy(r.url) THEN idx ELSE 0
    /\ executed' = Append(executed, [pos |-> idx, name |-> fc.name, kind |-> r.kind,
                                     result |-> r.result, url |-> r.url,
                                     handler_called |-> r.handler_called,
                                     handler_raised |-> r.handler_raised])

\* function_handler.py 969-973: the body of the loop for the call fc, r being what
\* execute_function_call did for it.
ExecuteWith(fc, r) ==
    /\ session' = session
           \o <<Stream(<<"--- Tool", ToString(idx), ToString(Len(calls)), fc.name>>)>>
           \o r.events
    /\ output' = output \o r.result
    /\ file_url' = PyOr(file_url, r.url)
    /\ file_url_from' = IF Truthy(file_url) THEN file_url_from
                        ELSE IF Truthy(r.url) THEN idx ELSE 0
    /\ executed' = Append(executed, [pos |-> idx, name |-> fc.name, kind |-> r.kind,
                                     result |-> r.result, url |-> r.url,
                                     handler_called |-> r.handler_called,
                                     handler_raised |-> r.handler_raised])

\* function_handler.py 966-975: one iteration of the loop over the calls.
ExecuteNext ==
    /\ dpc = "loop"
    /\ idx <= Len(calls)
    /\ ExecuteWith(calls[idx], execute_function_call(calls[idx]))
    /\ idx' = idx + 1
    /\ UNCHANGED <<dpc, calls, ret, ninvocations>>
    /\ UNCHANGED mainVars
    /\ UNCHANGED loadVars
    /\ UNCHANGED taskVars

\* Finish with a slip: the closing notice is not emitted.
FinishSilent ==
    /\ dpc = "loop"
    /\ idx > Len(calls)
    /\ ret' = [output |-> output, file_url |-> file_url]
    /\ dpc' = "returned"
    /\ UNCHANGED <<calls, idx, output, file_url, ninvocations, executed, file_url_from,
                   session>>
    /\ UNCHANGED mainVars
    /\ UNCHANGED loadVars
    /\ UNCHANGED taskVars

\* function_handler.py 977-980: the loop is over.
Finish ==
    /\ dpc = "loop"
    /\ idx > Len(calls)
    /\ session' = Append(session, Stream(<<"All", ToString(Len(calls)), "tool(s) completed!">>))
    /\ ret' = [output |-> output, file_url |-> file_url]
    /\ dpc' = "returned"
    /\ UNCHANGED <<calls, idx, output, file_url, ninvocations, executed, file_url_from>>
    /\ UNCHANGED mainVars
    /\ UNCHANGED loadVars
    /\ UNCHANGED taskVars

(***************************************************************************)
(* src/function_handler.py 354-368: one call of _run_with_loading, step by *)
(* step.  Time is counted in half seconds.                                 *)
(***************************************************************************)
\* min_delay: float = 1.5
MinDelay == 3

\* The keys the handlers pass (lines 407, 431, 452, 490, 542).
LoadingKeys == {"generating", "video", "audio", "map", "card.list"}

\* The awaited operation: it ends `duration` after it was started, by returning
\* `value` or by raising.
Coroutines == [duration : 0..MaxDuration, raises : BOOLEAN, value : {"v1", "v2"}]

NoCoro == [duration |-> 0, raises |-> FALSE, value |-> None]
NoResult == [how |-> "none", value |-> None]

\* An entry of loading_log.
At(op, k, t) == [op |-> op, key |-> k, at |-> t]

\* 358-359: session.loading.start(key); start_time = loop.time().
LoadingCall(k, c) ==
    /\ lpc = "idle"
    /\ lkey' = k
    /\ coro' = c
    /\ loading_log' = Append(loading_log, At("loading.start", k, now))
    /\ start_time' = now
    /\ lpc' = "started"
    /\ UNCHANGED <<now, wake_at, lresult>>
    /\ UNCHANGED <<mainVars, dispVars, taskVars>>

\* 361: await coro; the operation starts to run.
AwaitCoro ==
    /\ lpc = "started"
    /\ loading_log' = Append(loading_log, At("coro.run", lkey, now))
    /\ lpc' = "awaiting"
    /\ UNCHANGED <<lkey, coro, now, start_time, wake_at, lresult>>
    /\ UNCHANGED <<mainVars, dispVars, taskVars>>

\* Time passes while the call is suspended at one of its two awaits.
Tick ==
    /\ \/ lpc = "awaiting" /\ now - start_time < coro.duration
       \/ lpc = "sleeping" /\ now < wake_at
    /\ now' = now + 1
    /\ UNCHANGED <<lpc, lkey, coro, start_time, wake_at, loading_log, lresult>>
    /\ UNCHANGED <<mainVars, dispVars, taskVars>>

\* 361-368: the awaited operation ends.  If it raised, the exception leaves through
\* the finally clause at once; if it returned before min_delay the call sleeps for
\* the remainder; otherwise it returns through the finally clause.
CoroDone ==
    /\ lpc = "awaiting"
    /\ now - start_time = coro.duration
    /\ LET elapsed == now - start_time
       IN IF coro.raises
          THEN /\ loading_log' = Append(loading_log, At("loading.end", lkey, now))
               /\ lresult' = [how |-> "raised", value |-> "error"]
               /\ lpc' = "exit"
               /\ UNCHANGED wake_at
          ELSE IF elapsed < MinDelay
          THEN /\ wake_at' = now + (MinDelay - elapsed)
               /\ lpc' = "sleeping"
               /\ UNCHANGED <<loading_log, lresult>>
          ELSE /\ loading_log' = Append(loading_log, At("loading.end", lkey, now))
               /\ lresult' = [how |-> "returned", value |-> coro.value]
               /\ lpc' = "exit"
               /\ UNCHANGED wake_at
    /\ UNCHANGED <<lkey, coro, now, start_time>>
    /\ UNCHANGED <<mainVars, dispVars, taskVars>>

\* 365-368: the sleep is over; return result through the finally clause.
Wake ==
    /\ lpc = "sleeping"
    /\ now = wake_at
    /\ loading_log' = Append(loading_log, At("loading.end", lkey, now))
    /\ lresult' = [how |-> "returned", value |-> coro.value]
    /\ lpc' = "exit"
    /\ UNCHANGED <<lkey, coro, now, start_time, wake_at>>
    /\ UNCHANGED <<mainVars, dispVars, taskVars>>

\* Cancel with a slip: no finally clause, so a cancellation leaves without
\* session.loading.end.
CancelWithoutFinally ==
    /\ lpc \in {"awaiting", "sleeping"}
    /\ lresult' = [how |-> "cancelled", value |-> "CancelledError"]
    /\ lpc' = "exit"
    /\ UNCHANGED <<lkey, coro, now, start_time, wake_at, loading_log>>
    /\ UNCHANGED <<mainVars, dispVars, taskVars>>

\* The task is cancelled while suspended at the await of 361 or of 365:
\* CancelledError is raised there and leaves through the finally clause 367-368.
Cancel ==
    /\ lpc \in {"awaiting", "sleeping"}
    /\ loading_log' = Append(loading_log, At("loading.end", lkey, now))
    /\ lresult' = [how |-> "cancelled", value |-> "CancelledError"]
    /\ lpc' = "exit"
    /\ UNCHANGED <<lkey, coro, now, start_time, wake_at>>
    /\ UNCHANGED <<mainVars, dispVars, taskVars>>

(***************************************************************************)
(* src/main.py: several runs of process_message on one event loop.  A run  *)
(* keeps the loop from its start to its next await; the one await of       *)
(* process_message is that of process_function_calls (line 173), and the   *)
(* stream is read with a plain for loop.                                   *)
(***************************************************************************)
TaskIds == {"r1", "r2"}

\* The message each run is called with.
TaskMessage(t) == IF t = "r1" THEN <<"draw me a cat">> ELSE <<"hello">>
TaskRequests(t) == [thread_id : Threads, message : {TaskMessage(t)}, has_key : BOOLEAN]

\* A run that has not been started.
NoTask ==
    [pc |-> "idle", data |-> NoRequest, messages |-> <<>>, full_response |-> <<>>,
     function_calls |-> <<>>, nchunks |-> 0, log |-> <<>>]

\* The stream a run reads: a text delta, or the whole of an image call.
TaskChunks ==
    {StreamChunk(<< <<"hi">> >>, <<>>, None),
     StreamChunk(<<>>, <<Fragment(0, TRUE, <<"call_a", "generate_image">>,
                                  << <<"{", "prompt:a cat", "}">> >>)>>, None)}

\* main.py 72-129: run t starts with request d while no run holds the loop.
TaskReceive(t, d) ==
    /\ running = None
    /\ tasks[t].pc = "idle"
    /\ IF ~d.has_key
       THEN /\ tasks' = [tasks EXCEPT ![t] =
                   [NoTask EXCEPT !.pc = "done", !.data = d,
                       !.log = <<StreamChunkEv(MissingKeyMsg),
                                 LexiaEv("complete_response", MissingKeyMsg, None, None)>>]]
            /\ UNCHANGED <<conversation_memory, running>>
       ELSE LET old == IF d.thread_id \in DOMAIN conversation_memory
                       THEN conversation_memory[d.thread_id] ELSE <<>>
                turns == Append(old, Turn("user", d.message))
            IN /\ conversation_memory' =
                      [th \in DOMAIN conversation_memory \cup {d.thread_id} |->
                          IF th = d.thread_id THEN turns ELSE conversation_memory[th]]
               /\ tasks' = [tasks EXCEPT ![t] =
                      [NoTask EXCEPT !.pc = "streaming", !.data = d,
                          !.messages = <<Turn("system", SystemPrompt)>>
                                           \o LastN(turns, HistoryLimit)]]
               /\ running' = t
    /\ UNCHANGED <<pc, data, messages, full_response, usage_info, function_calls,
                   lexia_log, nchunks, nrequests, seen, arrived, first_of, conflicting>>
    /\ UNCHANGED dispVars
    /\ UNCHANGED loadVars

\* main.py 131-168: one iteration of run t's for chunk in stream.
TaskChunk(t, c) ==
    /\ running = t
    /\ tasks[t].pc = "streaming"
    /\ tasks[t].nchunks < MaxChunks
    /\ LET hasText == TruthyText(c.content)
           acc == AccumulateAll(tasks[t].function_calls, c.tool_calls)
           log1 == (IF hasText THEN Append(tasks[t].log, StreamChunkEv(c.content[1]))
                    ELSE tasks[t].log) \o acc.announce
       IN /\ tasks' = [tasks EXCEPT
                 ![t].nchunks = @ + 1,
                 ![t].full_response = IF hasText THEN @ \o c.content[1] ELSE @,
                 ![t].function_calls = acc.fcs,
                 ![t].log = IF acc.raised THEN Append(log1, SendErrorEv(IndexErrorText))
                            ELSE log1,
                 ![t].pc = IF acc.raised THEN "done" ELSE "streaming"]
          /\ running' = IF acc.raised THEN None ELSE t
    /\ UNCHANGED mainVars
    /\ UNCHANGED dispVars
    /\ UNCHANGED loadVars

\* main.py 113-131, 196-199: run t's provider call or stream iteration raises.
TaskStreamFail(t) ==
    /\ running = t
    /\ tasks[t].pc = "streaming"
    /\ tasks' = [tasks EXCEPT ![t].pc = "done",
                              ![t].log = Append(@, SendErrorEv(UpstreamErrorText))]
    /\ running' = None
    /\ UNCHANGED mainVars
    /\ UNCHANGED dispVars
    /\ UNCHANGED loadVars

\* main.py 170-199: run t's stream is exhausted and process_function_calls is called.
\* With the wrong number of arguments the call raises before there is anything to
\* await; otherwise the run is suspended in the await and gives up the loop.
TaskStreamEnd(t) ==
    /\ running = t
    /\ tasks[t].pc = "streaming"
    /\ IF ProcessMessageCallArgs # ProcessFunctionCallsParams
       THEN tasks' = [tasks EXCEPT ![t].pc = "done",
                                   ![t].log = Append(@, SendErrorEv(ArityErrorText))]
       ELSE tasks' = [tasks EXCEPT ![t].pc = "awaiting"]
    /\ running' = None
    /\ UNCHANGED mainVars
    /\ UNCHANGED dispVars
    /\ UNCHANGED loadVars

(***************************************************************************)
(* Specifications.                                                         *)
(***************************************************************************)
Init ==
    /\ conversation_memory = [t \in {} |-> <<>>]
    /\ pc = "idle"
    /\ data = NoRequest
    /\ messages = <<>>
    /\ full_response = <<>>
    /\ usage_info = None
    /\ function_calls = <<>>
    /\ lexia_log = <<>>
    /\ nchunks = 0
    /\ nrequests = 0
    /\ seen = {}
    /\ arrived = [i \in 0..MaxIndex |-> <<>>]
    /\ first_of = [i \in 0..MaxIndex |-> NoFragment]
    /\ conflicting = {}
    /\ dpc = "idle"
    /\ calls = <<>>
    /\ idx = 0
    /\ output = <<>>
    /\ file_url = None
    /\ session = <<>>
    /\ ret = NoReturn
    /\ ninvocations = 0
    /\ executed = <<>>
    /\ file_url_from = 0
    /\ lpc = "idle"
    /\ lkey = None
    /\ coro = NoCoro
    /\ now = 0
    /\ start_time = 0
    /\ wake_at = 0
    /\ loading_log = <<>>
    /\ lresult = NoResult
    /\ tasks = [t \in TaskIds |-> NoTask]
    /\ running = None

\* One request after the other through process_message.
MessageNext ==
    \/ \E d \in Requests : Receive(d)
    \/ \E c \in StreamChunks : Chunk(c)
    \/ StreamFail
    \/ StreamEnd

SpecMessage == Init /\ [][MessageNext]_vars

\* Streams that carry whole tool calls: an image call that succeeds, one that fails,
\* a trace call, a call of an unregistered tool, and a text delta.
ArtifactChunks ==
    {StreamChunk(<<>>, <<Fragment(i, TRUE, c[1], << c[2] >>)>>, None) :
        i \in 0..MaxIndex,
        c \in {<< <<"call_a", "generate_image">>, <<"{", "prompt:a cat", "}">> >>,
               << <<"call_a", "generate_image">>, <<"{", "}">> >>,
               << <<"call_b", "send_trace">>, <<"{", "content:c", "}">> >>,
               << <<"call_c", "no_such_tool">>, <<"{", "}">> >>}}
    \cup {StreamChunk(<< <<"hi">> >>, <<>>, None)}

\* Requests whose streams carry whole tool calls.
ArtifactNext ==
    \/ \E d \in Requests : Receive(d)
    \/ \E c \in ArtifactChunks : Chunk(c)
    \/ StreamFail
    \/ StreamEnd

SpecArtifact == Init /\ [][ArtifactNext]_vars

\* A short stream: a text delta, or the whole of an image call.
KeylessChunks ==
    {StreamChunk(<< <<"hi">> >>, <<>>, None),
     StreamChunk(<<>>, <<Fragment(0, TRUE, <<"call_a", "generate_image">>,
                                  << <<"{", "prompt:a cat", "}">> >>)>>, None)}

\* Requests with and without a key, one after the other.
KeylessNext ==
    \/ \E d \in Requests : ReceiveWithin(d, MaxArrivals)
    \/ \E c \in KeylessChunks : Chunk(c)
    \/ StreamFail
    \/ StreamEnd

SpecKeyless == Init /\ [][KeylessNext]_vars

\* Two runs of process_message on one event loop.
TaskNext ==
    \/ \E t \in TaskIds : \E d \in TaskRequests(t) : TaskReceive(t, d)
    \/ \E t \in TaskIds : \E c \in TaskChunks : TaskChunk(t, c)
    \/ \E t \in TaskIds : TaskStreamFail(t)
    \/ \E t \in TaskIds : TaskStreamEnd(t)

SpecTasks == Init /\ [][TaskNext]_vars

\* The messages of the requests whose prompt context is followed.
ContextMessages == {<<"draw me a cat">>, <<"hello">>}
ContextRequests == [thread_id : Threads, message : ContextMessages, has_key : {TRUE}]

\* Many requests one after the other, each stream ending or failing at once.
ContextNext ==
    \/ \E d \in ContextRequests : ReceiveWithin(d, MaxTurns)
    \/ StreamFail
    \/ StreamEnd

SpecContext == Init /\ [][ContextNext]_vars

\* process_function_calls called with a batch and a session.
DispatchNext ==
    \/ \E batch \in (IF session = <<>> THEN Batches ELSE {<<>>}) : Invoke(batch)
    \/ ExecuteNext
    \/ Finish

SpecDispatch == Init /\ [][DispatchNext]_vars

\* process_function_calls called with one send_audio call.
AudioNext ==
    \/ \E a \in AudioArguments : Invoke(<<ToolCall("call_1", "send_audio", a)>>)
    \/ ExecuteNext
    \/ Finish

SpecAudio == Init /\ [][AudioNext]_vars

\* process_function_calls called with one call of one of the tools of OneCallTools.
OneCallNext ==
    \/ \E name \in OneCallTools :
           \E a \in ArgumentsOver(ToolMemberTokens(name)) :
               Invoke(<<ToolCall("call_1", name, a)>>)
    \/ ExecuteNext
    \/ Finish

SpecOneCall == Init /\ [][OneCallNext]_vars

\* One call of _run_with_loading.
LoadingNext ==
    \/ \E k \in LoadingKeys, c \in Coroutines : LoadingCall(k, c)
    \/ AwaitCoro
    \/ Tick
    \/ CoroDone
    \/ Wake
    \/ Cancel

SpecLoading == Init /\ [][LoadingNext]_vars

Next == MessageNext \/ DispatchNext

Spec == Init /\ [][Next]_vars

(***************************************************************************)
(* The tool-call stream accumulator (main.py 140-163).                     *)
(***************************************************************************)
LastLexia == lexia_log[Len(lexia_log)]

\* The request ended in the except clause with the given error.
EndedWithError(err) ==
    /\ pc = "done"
    /\ lexia_log # <<>>
    /\ LastLexia.op = "send_error"
    /\ LastLexia.text = <<"Error processing message:", err>>

AccumulatorRaised == EndedWithError(IndexErrorText)

\* The arguments of the record read for index i (function_calls[i]), if there is one.
CallArgs(fcs, i) == IF i + 1 <= Len(fcs) THEN <<fcs[i + 1].arguments>> ELSE <<>>

\* C1: for every stream of fragments, in whatever order the indices first appear,
\* the accumulation does not fail, and the call read for an index (when a record
\* stands at that index, or some chunk text was delivered for it) holds exactly the
\* concatenation, in arrival order, of the chunks carrying that index.
C1_ArgumentsAreChunkConcatenation ==
    /\ ~AccumulatorRaised
    /\ \A i \in seen :
          (i + 1 <= Len(function_calls) \/ arrived[i] # <<>>) =>
              CallArgs(function_calls, i) = <<arrived[i]>>

\* The fragments of index i so far, delivered as one fragment with the first one's
\* id and name.
MergedFragment(i) == Fragment(i, TRUE, <<first_of[i].id, first_of[i].name>>, <<arrived[i]>>)

\* C2: when all the fragments delivered share one index, the accumulator ends as it
\* does on the single fragment carrying the concatenation of their chunks: it fails
\* in both cases or in neither, and where both leave a record at that index the two
\* records have the same arguments.
C2_SplitIndependent ==
    \A i \in seen :
        (seen = {i} /\ pc \in {"streaming", "done"}) =>
            LET one == AccumulateFragment(<<>>, MergedFragment(i))
            IN /\ one.raised = AccumulatorRaised
               /\ (i + 1 <= Len(function_calls) /\ i + 1 <= Len(one.fcs)) =>
                      function_calls[i + 1].arguments = one.fcs[i + 1].arguments

\* C3: while a response is streamed, every record already allocated keeps its id and
\* its name, whatever later fragments carry, and its arguments only grow by append
\* (the old text is a prefix of the new one).
C3_RecordsKeepIdentity ==
    [][pc = "streaming" =>
          /\ Len(function_calls') >= Len(function_calls)
          /\ \A k \in 1..Len(function_calls) :
                /\ function_calls'[k].id = function_calls[k].id
                /\ function_calls'[k].name = function_calls[k].name
                /\ IsPrefix(function_calls[k].arguments, function_calls'[k].arguments)]_vars

\* C3 witness: index 0 received a later fragment with another id or name and more
\* arguments, and its record still carries the first fragment's id and name.
C3_Witness ==
    /\ 0 \in conflicting
    /\ Len(function_calls) >= 1
    /\ function_calls[1].name = "generate_image"
    /\ function_calls[1].id = first_of[0].id
    /\ Len(function_calls[1].arguments) >= 2

(***************************************************************************)
(* The hand-over from process_message to the dispatcher (main.py 170-175).  *)
(***************************************************************************)
\* An arguments text cut short: some text arrived and it does not decode.
Truncated(text) == text # <<>> /\ ~JsonLoads(text).ok

\* The stream of the request was read to its end without an error.
StreamExhausted ==
    /\ pc = "done"
    /\ data.has_key
    /\ ~AccumulatorRaised
    /\ ~EndedWithError(UpstreamErrorText)

\* C10: when the stream ends with a call whose arguments were cut short, the
\* accumulator's calls, that one included, are handed to process_function_calls and
\* the request does not end in an error notice.
C10_TruncatedCallIsDispatched ==
    (/\ StreamExhausted
     /\ \E k \in 1..Len(function_calls) : Truncated(function_calls[k].arguments))
    => /\ dpc # "idle"
       /\ calls = function_calls
       /\ LastLexia.op # "send_error"

(***************************************************************************)
(* The dispatcher (function_handler.py 918-980).                           *)
(***************************************************************************)
EmptyReturn == [output |-> <<>>, file_url |-> None]

\* C4: process_function_calls on an empty batch returns ("", None) at once and makes
\* no call on the session, on the first invocation and on every later one.
C4_EmptyBatchReturnsAtOnce ==
    [][(ninvocations' = ninvocations + 1 /\ calls' = <<>>) =>
          /\ ret' = EmptyReturn
          /\ dpc' = "returned"
          /\ session' = session]_vars

\* C4 witness: the empty batch was dispatched twice in a row on an unused session,
\* which is still unused, and ("", None) was returned.
C4_Witness ==
    /\ ninvocations >= 2
    /\ calls = <<>>
    /\ dpc = "returned"
    /\ session = <<>>
    /\ ret = EmptyReturn

\* The result message the call at position i of the batch yields.
MessageOf(i) == execute_function_call(calls[i]).result

\* C5: for a non-empty batch the output is, at every point of the loop and in the
\* value returned, the concatenation in call order of one non-empty result message
\* per call executed so far, and every call has been executed at the return.
C5_OutputIsConcatenation ==
    (dpc \in {"loop", "returned"} /\ calls # <<>>) =>
        /\ Len(executed) <= Len(calls)
        /\ output = Flatten([i \in 1..Len(executed) |-> MessageOf(i)])
        /\ \A i \in 1..Len(executed) :
              /\ MessageOf(i) # <<>>
              /\ executed[i].kind \in {"ok", "noaudio", "unknown", "fail"}
        /\ dpc = "returned" => (Len(executed) = Len(calls) /\ ret.output = output)

\* C5 witness: a batch of an unregistered call and a successful one has returned.
C5_Witness ==
    /\ dpc = "returned"
    /\ Len(calls) = 2
    /\ executed[1].kind = "unknown"
    /\ executed[2].kind = "ok"
    /\ ret.output = executed[1].result \o executed[2].result

\* The positions, among the calls executed so far, whose result carries a URL.
WithUrl == {i \in 1..Len(executed) : executed[i].url # None}

Min(S) == CHOOSE x \in S : \A y \in S : x <= y

\* C6: file_url is the URL of the first executed call whose result carries one and
\* None when there is none; a later call never replaces it, and that is the URL
\* returned.
C6_FirstUrlWins ==
    (dpc \in {"loop", "returned"} /\ calls # <<>>) =>
        /\ IF WithUrl = {}
           THEN file_url = None /\ file_url_from = 0
           ELSE file_url = executed[Min(WithUrl)].url /\ file_url_from = Min(WithUrl)
        /\ dpc = "returned" => ret.file_url = file_url

\* C6 witness: two calls carrying a URL each; the first one's was returned.
C6_Witness ==
    /\ dpc = "returned"
    /\ Len(calls) = 2
    /\ executed[1].url # None
    /\ executed[2].url # None
    /\ ret.file_url = executed[1].url
    /\ file_url_from = 1

\* C7: a call whose name is no key of FUNCTION_HANDLERS invokes no handler and yields
\* exactly the "unknown function" message and no URL; the calls after it are executed.
C7_UnknownFunction ==
    (dpc \in {"loop", "returned"} /\ calls # <<>>) =>
        /\ \A i \in 1..Len(executed) :
              calls[i].name \notin FunctionHandlerNames =>
                  /\ executed[i].kind = "unknown"
                  /\ ~executed[i].handler_called
                  /\ executed[i].result = <<"Unknown function:", calls[i].name>>
                  /\ executed[i].url = None
        /\ \A i \in 1..Len(executed) :
              calls[i].name \in FunctionHandlerNames => executed[i].handler_called
        /\ dpc = "returned" => Len(executed) = Len(calls)

\* C7 witness: an unregistered call came first and the registered call after it ran.
C7_Witness ==
    /\ dpc = "returned"
    /\ Len(calls) = 2
    /\ calls[1].name = "no_such_tool"
    /\ executed[1].kind = "unknown"
    /\ executed[2].handler_called

\* function_handler.py 27-343: the "required" members of each tool's schema.
RequiredKeys(fn_name) ==
    CASE fn_name = "generate_image" -> {"prompt"}
      [] fn_name = "send_video" -> {"url"}
      [] fn_name = "send_location" -> {"lat", "lng"}
      [] fn_name = "send_trace" -> {"content"}
      [] fn_name = "send_buttons" -> {"buttons"}
      [] fn_name = "send_card_list" -> {"cards"}
      [] fn_name = "track_usage" -> {"tokens", "token_type"}
      [] OTHER -> {}

\* The call cannot succeed: its handler decodes the arguments and they are malformed,
\* or a required member is missing.
MustFail(fc) ==
    /\ fc.name \in FunctionHandlerNames \ {"complete_streaming_example"}
    /\ \/ ~JsonLoads(fc.arguments).ok
       \/ /\ JsonLoads(fc.arguments).isdict
          /\ ~(RequiredKeys(fc.name) \subseteq DOMAIN JsonLoads(fc.arguments).map)

ExampleBatch ==
    <<ToolCall("call_1", "send_location", <<"{", "lat:35", "lng:51", "}">>),
      ToolCall("call_1", "send_trace", <<"{", "}">>)>>

\* C8: whichever calls of a batch fail, the loop never stops before the last call:
\* the calls are executed once each, in order, the invocation returns, and a call
\* that fails contributes a failure message naming it and no URL.  send_location with
\* lat and lng followed by send_trace without content forwards the coordinates,
\* reports the second call as failed and returns no URL.
C8_FailuresAreIsolated ==
    (dpc \in {"loop", "returned"} /\ calls # <<>>) =>
        /\ idx \in 1..(Len(calls) + 1)
        /\ Len(executed) = idx - 1
        /\ \A i \in 1..Len(executed) :
              /\ executed[i].pos = i
              /\ executed[i].name = calls[i].name
              /\ MustFail(calls[i]) => executed[i].kind = "fail"
              /\ executed[i].kind = "fail" =>
                    /\ executed[i].url = None
                    /\ Len(executed[i].result) > 2
                    /\ SubSeq(executed[i].result, 1, 2) = Fail(calls[i].name, <<>>).result
        /\ dpc = "returned" =>
              /\ Len(executed) = Len(calls)
              /\ idx = Len(calls) + 1
        /\ (dpc = "returned" /\ calls = ExampleBatch) =>
              /\ \E k \in 1..Len(session) :
                    session[k] = Ev("location.send_coordinates", <<"35", "51">>)
              /\ executed[1].kind = "ok"
              /\ executed[2].kind = "fail"
              /\ ret.file_url = None

\* C8 witness: the example batch has returned, its first call having succeeded and
\* its second one failed.
C8_Witness ==
    /\ dpc = "returned"
    /\ calls = ExampleBatch
    /\ executed[1].kind = "ok"
    /\ executed[2].kind = "fail"
    /\ executed[2].handler_raised

\* C9: no exception leaves a registered handler, whatever the call's arguments.
C9_HandlersNeverRaise ==
    \A i \in 1..Len(executed) : ~executed[i].handler_raised

(***************************************************************************)
(* The loading guard (_run_with_loading, function_handler.py 354-368).     *)
(***************************************************************************)
\* The positions of loading_log that hold a call op.
Positions(op) == {i \in 1..Len(loading_log) : loading_log[i].op = op}

\* C11: loading.start(key) is signalled before the operation runs, loading.end(key)
\* exactly once and after it on every way out (return, the operation raising,
\* cancellation at either await), never before the way out, and a returned result
\* is the operation's own.
C11_LoadingBracketsOperation ==
    /\ lpc # "idle" =>
           /\ Positions("loading.start") = {1}
           /\ loading_log[1].key = lkey
           /\ \A i \in Positions("coro.run") : i > 1
    /\ lpc \in {"started", "awaiting", "sleeping"} => Positions("loading.end") = {}
    /\ lpc = "exit" =>
           /\ Positions("coro.run") = {2}
           /\ Positions("loading.end") = {3}
           /\ Len(loading_log) = 3
           /\ loading_log[3].key = lkey
           /\ lresult.how \in {"returned", "raised", "cancelled"}
           /\ lresult.how = "returned" => lresult.value = coro.value /\ ~coro.raises
           /\ lresult.how = "raised" => coro.raises

\* The call was cancelled during the minimum-duration wait and loading.end was signalled.
C11_Witness ==
    /\ lpc = "exit"
    /\ lresult.how = "cancelled"
    /\ wake_at > now
    /\ Positions("loading.end") = {3}

Max(a, b) == IF a >= b THEN a ELSE b

\* C12: when the operation ends (returns or raises) after T, loading.end is signalled
\* and control is given back no earlier than max(T, min_delay) after loading.start.
C12_IndicatorVisibleForFloor ==
    (lpc = "exit" /\ lresult.how \in {"returned", "raised"}) =>
        loading_log[Len(loading_log)].at - loading_log[1].at >= Max(coro.duration, MinDelay)

(***************************************************************************)
(* The batch notices and the order of the calls                           *)
(* (process_function_calls, function_handler.py 960-980).                  *)
(***************************************************************************)
StartNotice(n) == Stream(<<"Executing", ToString(n), "tool(s)...">>)
DoneNotice(n) == Stream(<<"All", ToString(n), "tool(s) completed!">>)

\* C13: for a non-empty batch of N calls the first session event is the notice that
\* N tools are being executed and, once the dispatcher has returned, the last one is
\* the notice that all N tools completed; neither notice occurs in between, where
\* every call leaves at least its header and its announcement, also when calls fail.
C13_NoticesBracketBatch ==
    (calls # <<>> /\ dpc \in {"loop", "returned"}) =>
        LET n == Len(calls)
        IN /\ session[1] = StartNotice(n)
           /\ \A i \in 2..Len(session) : session[i] # StartNotice(n)
           /\ dpc = "loop" => \A i \in 1..Len(session) : session[i] # DoneNotice(n)
           /\ dpc = "returned" =>
                  /\ Len(session) >= 2 + 2 * n
                  /\ session[Len(session)] = DoneNotice(n)
                  /\ \A i \in 1..(Len(session) - 1) : session[i] # DoneNotice(n)

\* A batch of two calls, one of them failed, has returned between its two notices.
C13_Witness ==
    /\ dpc = "returned"
    /\ Len(calls) = 2
    /\ \E i \in 1..Len(executed) : executed[i].kind = "fail"
    /\ session[1] = StartNotice(2)
    /\ session[Len(session)] = DoneNotice(2)
    /\ Len(session) > 6

\* The header process_function_calls streams before call i.
Header(i) == Stream(<<"--- Tool", ToString(i), ToString(Len(calls)), calls[i].name>>)

RECURSIVE EventsUpTo(_)
\* What the calls 1..k emit when each runs to its end before the next starts.
EventsUpTo(k) ==
    IF k = 0 THEN <<>>
    ELSE EventsUpTo(k - 1) \o <<Header(k)>> \o execute_function_call(calls[k]).events

\* C19: the calls of a batch run one after the other in call order: after the opening
\* notice the session holds, for each call started so far and in call order, the
\* call's header followed by everything the call emitted, so every session effect of
\* call i precedes every session effect of call i+1.
C19_CallsRunInOrder ==
    (calls # <<>> /\ dpc \in {"loop", "returned"}) =>
        LET body == EventsUpTo(idx - 1)
        IN /\ Len(session) = 1 + Len(body) + (IF dpc = "returned" THEN 1 ELSE 0)
           /\ SubSeq(session, 2, 1 + Len(body)) = body
           /\ Len(executed) = idx - 1
           /\ \A i \in 1..Len(executed) : executed[i].pos = i /\ executed[i].name = calls[i].name

\* Two calls with session effects of their own have both run: a video, then a trace.
C19_Witness ==
    /\ dpc = "returned"
    /\ Len(calls) = 2
    /\ calls[1].name = "send_video"
    /\ calls[2].name = "send_trace"
    /\ executed[1].kind = "ok"
    /\ executed[2].kind = "ok"
    /\ \E i, j \in 1..Len(session) :
           /\ i < j
           /\ session[i].op \in {"video.send", "video.youtube"}
           /\ session[j].op = "tracing.send"

(***************************************************************************)
(* The audio handler (handle_send_audio, function_handler.py 444-479).     *)
(***************************************************************************)
\* The positions of the session that hold a call op.
SessionPositions(op) == {i \in 1..Len(session) : session[i].op = op}

RECURSIVE UrlsOf(_)
\* The urls of the entries passed to audio.send, in order.
UrlsOf(arg) ==
    IF Len(arg) < 2 THEN <<>>
    ELSE IF arg[1] = "url" THEN <<arg[2]>> \o UrlsOf(SubSeq(arg, 3, Len(arg)))
    ELSE UrlsOf(Tail(arg))

\* C14: a send_audio call makes at most one audio call, chosen by the shape of its
\* arguments: with a tracks list (of tracks that each have a url) audio.send is called
\* with one entry per track in list order and audio.send_single is not, also when url
\* is present; without a list and with url audio.send_single is called; with neither
\* there is no audio call and the handler returns the no-audio result without raising.
C14_AudioCallChosenByShape ==
    (dpc = "returned" /\ Len(calls) = 1 /\ calls[1].name = "send_audio"
       /\ JsonLoads(calls[1].arguments).ok /\ JsonLoads(calls[1].arguments).isdict) =>
        LET map == JsonLoads(calls[1].arguments).map
            sends == SessionPositions("audio.send")
            singles == SessionPositions("audio.send_single")
            hasList == "tracks" \in DOMAIN map
            hasUrl == "url" \in DOMAIN map
        IN /\ Cardinality(sends \cup singles) <= 1
           /\ (hasList /\ \A i \in 1..Len(map["tracks"]) : map["tracks"][i].url # None) =>
                  /\ singles = {}
                  /\ Cardinality(sends) = 1
                  /\ \A i \in sends :
                         UrlsOf(session[i].arg) =
                             [k \in 1..Len(map["tracks"]) |-> map["tracks"][k].url]
           /\ (~hasList /\ hasUrl) => (sends = {} /\ Cardinality(singles) = 1)
           /\ (~hasList /\ ~hasUrl) =>
                  /\ sends \cup singles = {}
                  /\ executed[1].kind = "noaudio"
                  /\ ~executed[1].handler_raised

(***************************************************************************)
(* The request handler and the conversation memory (main.py 62-199).       *)
(***************************************************************************)
\* The turns stored for the thread of the request being processed.
ThreadMemory ==
    IF data.thread_id \in DOMAIN conversation_memory
    THEN conversation_memory[data.thread_id] ELSE <<>>

\* C15: the user's message of a request with a key is in the thread's memory from the
\* moment the stream is opened, and once the stream has been read to its end the
\* last turn of the thread is the assistant's turn, whose content starts with the
\* text streamed by the model (the text of the tool calls follows it).
C15_TurnsRecorded ==
    /\ (pc \in {"streaming", "done"} /\ data.has_key) =>
           \E k \in 1..Len(ThreadMemory) : ThreadMemory[k] = Turn("user", data.message)
    /\ StreamExhausted =>
           /\ ThreadMemory # <<>>
           /\ ThreadMemory[Len(ThreadMemory)].role = "assistant"
           /\ IsPrefix(full_response, ThreadMemory[Len(ThreadMemory)].content)

\* C16: a request whose stream ends normally leaves, as the last two turns of its
\* thread, its user turn followed by an assistant turn, has handed the accumulated
\* calls to process_function_calls and ends with complete_response, not send_error.
C16_NormalEndRecordsTwoTurns ==
    StreamExhausted =>
        /\ Len(ThreadMemory) >= 2
        /\ ThreadMemory[Len(ThreadMemory) - 1] = Turn("user", data.message)
        /\ ThreadMemory[Len(ThreadMemory)].role = "assistant"
        /\ calls = function_calls
        /\ lexia_log # <<>>
        /\ LastLexia.op = "complete_response"
        /\ \A i \in 1..Len(lexia_log) : lexia_log[i].op # "send_error"

\* The turns of the context that follow the system message.
ContextTurns == Tail(messages)

\* C17: the prompt context of a request is the system message followed by the
\* min(10, length) most recent turns of the thread's memory in their order, the last
\* of them the request's own user turn; and no step removes or alters a stored turn.
C17_ContextIsRecentTurns ==
    /\ [](( pc \in {"streaming", "done"} /\ data.has_key) =>
            LET n == IF Len(ThreadMemory) <= 10 THEN Len(ThreadMemory) ELSE 10
            IN /\ messages[1] = Turn("system", SystemPrompt)
               /\ Len(ContextTurns) = n
               /\ \A k \in 1..n : ContextTurns[k] = ThreadMemory[Len(ThreadMemory) - n + k]
               /\ ContextTurns[n] = Turn("user", data.message))
    /\ [][\A t \in DOMAIN conversation_memory :
             /\ t \in DOMAIN conversation_memory'
             /\ IsPrefix(conversation_memory[t], conversation_memory'[t])]_vars

\* A thread holds more than ten turns, not all alike, and the context of its newest
\* request holds ten of them.
C17_Witness ==
    /\ pc = "streaming"
    /\ Len(ThreadMemory) = 11
    /\ ThreadMemory[1] # ThreadMemory[2]
    /\ ThreadMemory[1] # ThreadMemory[11]
    /\ Len(messages) = 11

\* The calls on the lexia handler with the given op.
LexiaPositions(op) == {i \in 1..Len(lexia_log) : lexia_log[i].op = op}

\* The request met a failure of the model-provider stream.
StreamFailed == \E i \in 1..Len(lexia_log) : lexia_log[i] = SendErrorEv(UpstreamErrorText)

\* C18: a request whose stream fails is over and has emitted exactly one error notice,
\* the last thing it did; nothing was handed to process_function_calls, no complete
\* response was sent, no assistant turn was stored, and the step that fails leaves
\* everything already sent on the lexia handler in place.
C18_StreamFailureEndsRequest ==
    /\ [](StreamFailed =>
            /\ pc = "done"
            /\ LastLexia = SendErrorEv(UpstreamErrorText)
            /\ Cardinality(LexiaPositions("send_error")) = 1
            /\ LexiaPositions("complete_response") = {}
            /\ dpc = "idle"
            /\ calls = <<>>
            /\ session = <<>>
            /\ ThreadMemory[Len(ThreadMemory)] = Turn("user", data.message))
    /\ [][(~StreamFailed /\ StreamFailed') =>
            /\ lexia_log' = Append(lexia_log, SendErrorEv(UpstreamErrorText))
            /\ function_calls' = function_calls
            /\ full_response' = full_response]_vars

\* The stream failed after text had been streamed and a tool call accumulated.
C18_Witness ==
    /\ EndedWithError(UpstreamErrorText)
    /\ function_calls # <<>>
    /\ full_response # <<>>
    /\ \E i \in LexiaPositions("stream_chunk") : lexia_log[i].text = <<"hi">>

(***************************************************************************)
(* The two kinds of failure of a tool call                                 *)
(* (_parse_args 350-351, _fail 371-374, execute_function_call 939-945).    *)
(***************************************************************************)
\* The kind of failure a result message reports: its marker, in front of the name of
\* the function and of the text of the exception.
ReportedKind(result) == Head(result)

\* Call i failed because its arguments text does not decode.
DecodeFailed(i) ==
    /\ executed[i].kind = "fail"
    /\ ~JsonLoads(calls[i].arguments).ok

\* Call i failed in its handler after its arguments text had decoded.
ExecutionFailed(i) ==
    /\ executed[i].kind = "fail"
    /\ JsonLoads(calls[i].arguments).ok

\* C20: the result of a call whose arguments text fails to decode reports another
\* kind of failure than the result of a call whose handler failed after decoding.
C20_DecodeFailureReportedDistinctly ==
    calls # <<>> =>
        \A i, j \in 1..Len(executed) :
            (DecodeFailed(i) /\ ExecutionFailed(j)) =>
                ReportedKind(executed[i].result) # ReportedKind(executed[j].result)

(***************************************************************************)
(* Allocation and announcement of tool calls (main.py 142-158).            *)
(***************************************************************************)
\* The announcements of a call sent on the lexia handler by this request.
Announcements ==
    {i \in 1..Len(lexia_log) :
        lexia_log[i].op = "stream_chunk" /\ Head(lexia_log[i].text) = "Calling function:"}

\* The number of indices seen that are smaller than i.
Rank(i) == Cardinality({j \in seen : j < i})

\* C21: while the stream is read and after it, as long as the accumulator did not
\* raise, there is one record and one announcement per distinct index seen, and the
\* records are in the order of their indices, each with the id and the name of the
\* first fragment of its index.
C21_OneRecordPerIndex ==
    (pc \in {"streaming", "done"} /\ data.has_key /\ ~AccumulatorRaised) =>
        /\ Len(function_calls) = Cardinality(seen)
        /\ Cardinality(Announcements) = Cardinality(seen)
        /\ \A i \in seen :
               /\ function_calls[Rank(i) + 1].id = first_of[i].id
               /\ function_calls[Rank(i) + 1].name = first_of[i].name

(***************************************************************************)
(* The terminal notification of a request (main.py 76-84, 182-199).        *)
(***************************************************************************)
\* The complete responses and error notices sent by this request.
Terminals == LexiaPositions("complete_response") \cup LexiaPositions("send_error")

\* C29: a run of process_message that is over has sent exactly one terminal
\* notification, a complete response or an error notice, as the last thing it sent;
\* a run that is not over has sent none.
C29_OneTerminalNotification ==
    /\ pc = "streaming" => Terminals = {}
    /\ pc = "done" =>
           /\ Cardinality(Terminals) = 1
           /\ Terminals = {Len(lexia_log)}

\* A request without a key was answered: the text was streamed, then completed.
C29_Witness ==
    /\ pc = "done"
    /\ ~data.has_key
    /\ Len(lexia_log) = 2
    /\ lexia_log[1].op = "stream_chunk"
    /\ lexia_log[2].op = "complete_response"

(***************************************************************************)
(* The indicator around the model call (main.py 112-175).                  *)
(***************************************************************************)
\* The calls of this request that start, or end, the "thinking" indicator.
ThinkingCalls(op) ==
    {i \in 1..Len(lexia_log) : lexia_log[i].op = op /\ lexia_log[i].text = <<"thinking">>}

\* C26: a request that reached the model call has started the "thinking" indicator
\* before any delta of the stream is consumed; the indicator is not ended while the
\* stream is read, and it is ended once the stream has been read to its end and the
\* calls dispatched.
C26_ThinkingIndicatorWrapsModelCall ==
    /\ (pc = "streaming" /\ data.has_key) =>
           /\ ThinkingCalls("loading.start") # {}
           /\ ThinkingCalls("loading.end") = {}
    /\ StreamExhausted =>
           /\ ThinkingCalls("loading.start") # {}
           /\ ThinkingCalls("loading.end") # {}

(***************************************************************************)
(* The registry and the dispatch table (function_handler.py 27-343,        *)
(* 898-915).                                                               *)
(***************************************************************************)
\* C25: the names of the registry are the keys of the dispatch table, and a call
\* that names a tool of the registry is handed to a handler, never answered with
\* "unknown function".
C25_RegistryMatchesDispatchTable ==
    /\ RegistryNames = FunctionHandlerNames
    /\ calls # <<>> =>
           \A i \in 1..Len(executed) :
               calls[i].name \in RegistryNames =>
                   (executed[i].kind # "unknown" /\ executed[i].handler_called)

\* Two tools of the registry, the last of its entries among them, were called and
\* each reached its handler.
C25_Witness ==
    /\ dpc = "returned"
    /\ Len(calls) = 2
    /\ calls[1].name = "test_map"
    /\ calls[2].name = "test_buttons"
    /\ executed[1].handler_called
    /\ executed[2].handler_called

(***************************************************************************)
(* Indicators and button blocks left open (function_handler.py 354-368,    *)
(* 504-531, 565-573, 636-650, 872-891).                                    *)
(***************************************************************************)
\* Position i of the session opens something with `open` that position j closes with
\* `close`, for the same argument, with no other open or close in between.
ClosedBy(i, j, open, close) ==
    /\ i < j
    /\ session[i].op = open
    /\ session[j].op = close
    /\ session[j].arg = session[i].arg
    /\ \A k \in (i + 1)..(j - 1) : session[k].op \notin {open, close}

\* Every open is closed by the next open-or-close, and every close closes an open.
Bracketed(open, close) ==
    /\ \A i \in SessionPositions(open) :
           \E j \in SessionPositions(close) : ClosedBy(i, j, open, close)
    /\ \A j \in SessionPositions(close) :
           \E i \in SessionPositions(open) : ClosedBy(i, j, open, close)

\* C27: between two calls of a batch and when process_function_calls has returned, no
\* loading indicator is active, and within the calls each loading.start(key) is
\* followed by loading.end(key) before the next loading.start: at most one indicator
\* is active at any time, also when handlers fail.
C27_AtMostOneIndicator ==
    (calls # <<>> /\ dpc \in {"loop", "returned"}) => Bracketed("loading.start", "loading.end")

\* A batch has returned in which a call failed behind its indicator and another call
\* ran several indicators.
C27_Witness ==
    /\ dpc = "returned"
    /\ Len(calls) = 2
    /\ calls[1].name = "send_video"
    /\ executed[1].kind = "fail"
    /\ calls[2].name = "test_loading_states"
    /\ Cardinality(SessionPositions("loading.start")) >= 2

\* C28: between two calls of a batch and when process_function_calls has returned, every
\* button.begin() of the session is followed by one button.end() before the next
\* button.begin(): no button block is left open, also when the call failed.
C28_ButtonBlocksClosed ==
    (calls # <<>> /\ dpc \in {"loop", "returned"}) => Bracketed("button.begin", "button.end")

(***************************************************************************)
(* The buttons, video and image handlers (function_handler.py 381-441,     *)
(* 504-531).                                                               *)
(***************************************************************************)
\* The batch is one call of tool `name` whose arguments decode, and it has returned.
ReturnedOne(name) ==
    /\ dpc = "returned"
    /\ Len(calls) = 1
    /\ calls[1].name = name
    /\ JsonLoads(calls[1].arguments).ok

\* The decoded arguments of the only call.
OnlyArgs == JsonLoads(calls[1].arguments)

\* The button entry has the identifier its type asks for (url for a link, id for an
\* action, value standing in for either).
HasIdentifier(b) ==
    IF b.type = "link" THEN Truthy(b.url) \/ Truthy(b.value)
    ELSE Truthy(b.id) \/ Truthy(b.value)

\* The add calls of the session, in order.
AddCalls == SelectSeq(session, LAMBDA e : e.op \in {"button.add_link", "button.add_action"})

\* C22: a send_buttons call whose buttons member is a list of entries succeeds, and
\* the session sees button.begin() once, then one add per entry that has its
\* identifier, in list order and on the channel of the entry's type, then
\* button.end() once; entries without identifier leave no add call.
C22_ButtonsBlock ==
    (ReturnedOne("send_buttons") /\ OnlyArgs.isdict /\ "buttons" \in DOMAIN OnlyArgs.map) =>
        LET withId == SelectSeq(OnlyArgs.map["buttons"], HasIdentifier)
        IN /\ executed[1].kind = "ok"
           /\ ~executed[1].handler_raised
           /\ Cardinality(SessionPositions("button.begin")) = 1
           /\ Cardinality(SessionPositions("button.end")) = 1
           /\ Len(AddCalls) = Len(withId)
           /\ \A k \in 1..Len(withId) :
                  /\ AddCalls[k].arg[1] = (IF withId[k].label = None THEN "" ELSE withId[k].label)
                  /\ AddCalls[k].op = (IF withId[k].type = "link" THEN "button.add_link"
                                       ELSE "button.add_action")
           /\ \A b \in SessionPositions("button.begin"), e \in SessionPositions("button.end") :
                  /\ b < e
                  /\ \A a \in SessionPositions("button.add_link")
                                \cup SessionPositions("button.add_action") : b < a /\ a < e

\* Three entries, the middle one without identifier: the first and the last were added.
C22_Witness ==
    /\ ReturnedOne("send_buttons")
    /\ OnlyArgs.isdict
    /\ "buttons" \in DOMAIN OnlyArgs.map
    /\ Len(OnlyArgs.map["buttons"]) = 3
    /\ ~HasIdentifier(OnlyArgs.map["buttons"][2])
    /\ Len(AddCalls) = 2
    /\ AddCalls[2].op = "button.add_link"

\* The calls of the session on the two video channels.
VideoCalls == SessionPositions("video.youtube") \cup SessionPositions("video.send")

\* C23: a send_video call with url calls exactly one of video.youtube(url) and
\* video.send(url), youtube exactly when is_youtube is true; without url it calls
\* neither and yields a failure result with no URL.
C23_VideoChannelChosenByFlag ==
    ReturnedOne("send_video") =>
        IF OnlyArgs.isdict /\ "url" \in DOMAIN OnlyArgs.map
        THEN /\ Cardinality(VideoCalls) = 1
             /\ \A i \in VideoCalls : session[i].arg = <<OnlyArgs.map["url"]>>
             /\ SessionPositions("video.youtube") # {} <=>
                    ("is_youtube" \in DOMAIN OnlyArgs.map /\ OnlyArgs.map["is_youtube"] = "true")
             /\ executed[1].kind = "ok"
        ELSE /\ VideoCalls = {}
             /\ executed[1].kind = "fail"
             /\ executed[1].url = None
             /\ ret.file_url = None

\* A call with url and is_youtube true went to the youtube channel.
C23_Witness ==
    /\ ReturnedOne("send_video")
    /\ OnlyArgs.isdict
    /\ "url" \in DOMAIN OnlyArgs.map
    /\ "is_youtube" \in DOMAIN OnlyArgs.map
    /\ OnlyArgs.map["is_youtube"] = "true"
    /\ SessionPositions("video.youtube") # {}
    /\ SessionPositions("video.send") = {}

\* C24: a generate_image call whose arguments decode to a mapping of keys among
\* prompt, size, quality and style succeeds: the placeholder URL is sent on the image
\* channel and returned as the artifact URL.
C24_ImageAlwaysSucceeds ==
    (ReturnedOne("generate_image") /\ OnlyArgs.isdict
       /\ DOMAIN OnlyArgs.map \subseteq ImageParams) =>
        /\ executed[1].kind = "ok"
        /\ executed[1].url = PlaceholderUrl
        /\ ret.file_url = PlaceholderUrl
        /\ \E i \in SessionPositions("image.send") : session[i].arg = <<PlaceholderUrl>>

(***************************************************************************)
(* The artifact URL (function_handler.py 398-420, 964-980; main.py         *)
(* 185-192).                                                               *)
(***************************************************************************)
RECURSIVE DispatchUrl(_)
\* The URL process_function_calls returns for the calls fcs: file_url = file_url or url
\* over the calls in order.
DispatchUrl(fcs) ==
    IF fcs = <<>> THEN None
    ELSE PyOr(execute_function_call(Head(fcs)).url, DispatchUrl(Tail(fcs)))

\* C30: for the calls of a request whose stream was read to its end, the URL that
\* dispatch returns is non-null exactly when a generate_image call of the batch
\* succeeded, no other call yields a URL, and the request is completed with a
\* complete response that carries that URL as its file URL (none when it is null).
C30_ArtifactUrlFromImageOnly ==
    StreamExhausted =>
        /\ \A k \in 1..Len(function_calls) :
               execute_function_call(function_calls[k]).url # None =>
                   /\ function_calls[k].name = "generate_image"
                   /\ execute_function_call(function_calls[k]).kind = "ok"
        /\ DispatchUrl(function_calls) # None <=>
               \E k \in 1..Len(function_calls) :
                   /\ function_calls[k].name = "generate_image"
                   /\ execute_function_call(function_calls[k]).kind = "ok"
        /\ LastLexia.op = "complete_response"
        /\ LastLexia.file_url = DispatchUrl(function_calls)

(***************************************************************************)
(* The request without a key (main.py 76-84).                              *)
(***************************************************************************)
\* What a request without a key sends: the message streamed once, then completed.
MissingKeyAnswer ==
    <<StreamChunkEv(MissingKeyMsg), LexiaEv("complete_response", MissingKeyMsg, None, None)>>

\* C31: a request that arrives without an API key leaves the memory of every thread
\* as it was, builds no prompt and opens no stream, hands nothing to the dispatcher,
\* and has sent exactly the missing-key message as one stream chunk followed by one
\* complete response with the same text.
C31_KeylessRequestIsInert ==
    /\ []((pc = "done" /\ ~data.has_key /\ nrequests > 0) =>
            /\ lexia_log = MissingKeyAnswer
            /\ dpc = "idle")
    /\ [][(nrequests' # nrequests /\ ~data'.has_key) =>
            /\ conversation_memory' = conversation_memory
            /\ messages' = messages
            /\ pc' = "done"
            /\ lexia_log' = MissingKeyAnswer
            /\ UNCHANGED dispVars]_vars

\* A request without a key was answered on a thread that already holds a turn.
C31_Witness ==
    /\ pc = "done"
    /\ ~data.has_key
    /\ nrequests = 2
    /\ data.thread_id \in DOMAIN conversation_memory
    /\ Len(conversation_memory[data.thread_id]) = 1
    /\ lexia_log = MissingKeyAnswer

(***************************************************************************)
(* Runs in flight together (main.py 89-105, 172-180).                      *)
(***************************************************************************)
\* The memory of the thread of run t.
TaskMemory(t) ==
    IF tasks[t].data.thread_id \in DOMAIN conversation_memory
    THEN conversation_memory[tasks[t].data.thread_id] ELSE <<>>

\* Run t read its stream to the end: it is over, had a key, and neither the
\* accumulator nor the stream raised.
TaskExhausted(t) ==
    /\ tasks[t].pc = "done"
    /\ tasks[t].data.has_key
    /\ tasks[t].log # <<>>
    /\ tasks[t].log[Len(tasks[t].log)] \notin
           {SendErrorEv(IndexErrorText), SendErrorEv(UpstreamErrorText)}

\* C32: with two runs of process_message on one event loop, the prompt context of
\* every run that reached the model ends with that run's own user turn; a run that
\* read its stream to the end has left, in its thread's memory, an assistant turn
\* that starts with its streamed text after its own user turn; and a step of a run
\* changes the memory of no thread but its own.
C32_InterleavedRunsKeepOwnTurns ==
    /\ [](\A t \in TaskIds :
            /\ (tasks[t].pc # "idle" /\ tasks[t].data.has_key) =>
                   /\ tasks[t].messages # <<>>
                   /\ tasks[t].messages[Len(tasks[t].messages)] =
                          Turn("user", tasks[t].data.message)
            /\ TaskExhausted(t) =>
                   \E i \in 1..Len(TaskMemory(t)) : \E j \in (i + 1)..Len(TaskMemory(t)) :
                       /\ TaskMemory(t)[i] = Turn("user", tasks[t].data.message)
                       /\ TaskMemory(t)[j].role = "assistant"
                       /\ IsPrefix(tasks[t].full_response, TaskMemory(t)[j].content))
    /\ [][\A t \in TaskIds :
            tasks'[t] # tasks[t] =>
                \A th \in DOMAIN conversation_memory \ {tasks'[t].data.thread_id} :
                    /\ th \in DOMAIN conversation_memory'
                    /\ conversation_memory'[th] = conversation_memory[th]]_vars
====
